---- MODULE Spec2Model ----
(***************************************************************************)
(* A model of bhatho: a sharded LRU cache (cache/lru_cache.rs,             *)
(* cache/sharded_cache.rs) in front of a RocksDB store with an optional    *)
(* asynchronous writer pool (db/rocks_db.rs), paired by a DbManager        *)
(* (db/db_manager.rs) and routed by the Bhatho engine (lib.rs).            *)
(*                                                                         *)
(* Three specifications share the module:                                  *)
(*   Spec        DbManager + RocksDb + async writer workers                *)
(*   SpecCache   ShardedCache / Lru operations on their own                *)
(*   SpecRouter  Bhatho::get_shard, the routing function                   *)
(***************************************************************************)
EXTENDS Integers, Sequences, FiniteSets, TLC

(***************************************************************************)
(* 64-bit unsigned integers.  TLC's integers are 32 bits wide, so a u64 is *)
(* kept as its 8 little-endian bytes and the arithmetic the source uses    *)
(* (wrapping_mul, wrapping_add, >>, %) is done on the bytes.               *)
(***************************************************************************)
Byte == 256

U64Len == 8

u64_raw_product(a, b, i) ==
    LET s[j \in 0..i] == IF j = 0 THEN 0 ELSE s[j - 1] + a[j] * b[i - j + 1]
    IN  s[i]

u64_wrapping_mul(a, b) ==
    LET c[i \in 0..U64Len] ==
            IF i = 0 THEN 0 ELSE (u64_raw_product(a, b, i) + c[i - 1]) \div Byte
    IN  [i \in 1..U64Len |-> (u64_raw_product(a, b, i) + c[i - 1]) % Byte]

u64_wrapping_add(a, n) ==
    LET c[i \in 0..U64Len] == IF i = 0 THEN n ELSE (a[i] + c[i - 1]) \div Byte
    IN  [i \in 1..U64Len |-> (a[i] + c[i - 1]) % Byte]

\* h >> 33: bits 33..63, at most 2^31 - 1
u64_shr33(a) == (a[5] \div 2) + a[6] * 128 + a[7] * 32768 + a[8] * 8388608

\* h % n for a small n (kv.hash % self.dbs.len() as u64)
u64_mod(a, n) ==
    LET r[i \in 0..U64Len] ==
            IF i = 0 THEN 0 ELSE (r[i - 1] * Byte + a[U64Len + 1 - i]) % n
    IN  r[U64Len]

(***************************************************************************)
(* Keys, values and the key fingerprint.                                   *)
(***************************************************************************)
None == "none"

Keys == {"a", "b", "c", "d"}

Vals == {"1", "2"}

\* KeyVal::get_hash_code: XxHash64 with seed 0 of the key bytes.  The hash is
\* the twox_hash crate's; the table holds its value for each key of the model.
get_hash_code(key) ==
    CASE key = "a" -> <<91, 110, 140, 169, 241, 196, 78, 210>>
      [] key = "b" -> <<155, 159, 243, 26, 161, 42, 69, 120>>
      [] key = "c" -> <<237, 87, 6, 196, 68, 209, 218, 163>>
      [] key = "d" -> <<228, 20, 125, 144, 242, 216, 0, 80>>
      [] key = "user:42" -> <<194, 209, 210, 168, 125, 234, 31, 220>>
      [] key = "user:7" -> <<79, 224, 59, 69, 142, 51, 121, 38>>
      [] key = "item:1" -> <<202, 200, 113, 1, 218, 189, 52, 67>>

\* 2862933555777941757, the multiplier of gen_consistent_slot
JumpMultiplier == <<253, 176, 176, 135, 230, 46, 187, 39>>

\* min(n, floor((b + 1) * 2^31 / d)) for 1 <= d <= 2^31 - 1: the value
\* ((b + 1) as f64 * ((1u64 << 31) as f64 / d as f64)) as i64, cut at n.
\* The operands are below 2^32, so the f64 arithmetic truncates to the exact
\* quotient for every result below n + 1.
jump_quotient(b, d, n) ==
    LET dh == d \div 65536
        dl == d % 65536
        A  == (b + 1) * 32768
        Le(m) == LET diff == A - m * dh
                 IN  IF diff < 0 THEN FALSE
                     ELSE IF diff >= m THEN TRUE
                     ELSE m * dl <= diff * 65536
    IN  CHOOSE m \in 0..n : Le(m) /\ (m = n \/ ~Le(m + 1))

RECURSIVE jump_loop(_, _, _, _)
jump_loop(h, b, j, slot_count) ==
    IF j < slot_count
    THEN LET h2 == u64_wrapping_add(u64_wrapping_mul(h, JumpMultiplier), 1)
             t  == u64_shr33(h2)
             j2 == IF t = 2147483647
                   THEN IF j + 1 < slot_count THEN j + 1 ELSE slot_count
                   ELSE jump_quotient(j, t + 1, slot_count)
         IN  jump_loop(h2, j, j2, slot_count)
    ELSE b

\* KeyVal::gen_consistent_slot
gen_consistent_slot(hash, slot_count) == jump_loop(hash, -1, 0, slot_count)

\* the fingerprints of the model and the largest slot count it uses
ModelHashes ==
    {get_hash_code(k) : k \in {"a", "b", "c", "d", "user:42", "user:7", "item:1"}}

MaxSlots == 4

\* gen_consistent_slot, evaluated once for the fingerprints of the model
consistent_slots ==
    [h \in ModelHashes |-> [n \in 1..MaxSlots |-> gen_consistent_slot(h, n)]]

\* KeyVal::slot
slot(kv, slot_count) ==
    IF slot_count = 1 THEN 0 ELSE consistent_slots[kv.hash][slot_count]

\* KeyVal::key_slot
key_slot(key, slot_count) ==
    IF slot_count = 1 THEN 0
    ELSE consistent_slots[get_hash_code(key)][slot_count]

(***************************************************************************)
(* KeyVal, the request record (keyval.rs).                                 *)
(***************************************************************************)
EmptyBytes == ""

KeyVal_new(key, val) ==
    [hash |-> get_hash_code(key), key |-> key, val |-> val,
     db_name |-> EmptyBytes, skip_db |-> FALSE, skip_cache |-> FALSE]

KeyVal_new_with_db_name(db_name, key, val) ==
    [hash |-> get_hash_code(key), key |-> key, val |-> val,
     db_name |-> db_name, skip_db |-> FALSE, skip_cache |-> FALSE]

KeyVal_new_with_hash(key_hash, key, val) ==
    [hash |-> key_hash, key |-> key, val |-> val,
     db_name |-> EmptyBytes, skip_db |-> FALSE, skip_cache |-> FALSE]

KeyVal_new_with_key(key) ==
    [hash |-> get_hash_code(key), key |-> key, val |-> EmptyBytes,
     db_name |-> EmptyBytes, skip_db |-> FALSE, skip_cache |-> FALSE]

KeyVal_new_with_db_key(db_name, key) ==
    [hash |-> get_hash_code(key), key |-> key, val |-> EmptyBytes,
     db_name |-> db_name, skip_db |-> FALSE, skip_cache |-> FALSE]

\* the fingerprints a caller passes to new_with_hash
CallerHashes == {get_hash_code("c")}

\* the records callers build for put-like calls
PutRecords ==
    {KeyVal_new(k, v) : k \in Keys, v \in Vals}
        \cup {KeyVal_new_with_hash(h, k, v) : h \in CallerHashes, k \in Keys, v \in Vals}

\* the records callers build for get- and delete-like calls
KeyRecords ==
    {KeyVal_new_with_key(k) : k \in Keys}
        \cup {KeyVal_new_with_hash(h, k, EmptyBytes) : h \in CallerHashes, k \in Keys}

(***************************************************************************)
(* Lru, one shard (cache/lru_cache.rs): lru::LruCache behind a mutex.  The *)
(* shard is the sequence of its entries, least recently used first.        *)
(***************************************************************************)
LruKeys(c) == {c[i].key : i \in 1..Len(c)}

LruIndex(c, key) == CHOOSE i \in 1..Len(c) : c[i].key = key

LruRemove(c, key) == SelectSeq(c, LAMBDA e : e.key # key)

\* Lru::get that leaves the entry where it is
Lru_get_no_promote(c, key) ==
    IF key \in LruKeys(c)
    THEN [val |-> c[LruIndex(c, key)].val, cache |-> c]
    ELSE [val |-> None, cache |-> c]

\* Lru::get: the value and the shard afterwards; a hit moves the entry to the
\* most recently used end
Lru_get(c, key) ==
    IF key \in LruKeys(c)
    THEN LET e == c[LruIndex(c, key)]
         IN  [val |-> e.val, cache |-> Append(LruRemove(c, key), e)]
    ELSE [val |-> None, cache |-> c]

\* Lru::put that leaves the value of a key it already holds
Lru_put_keep_old(c, cache_capacity, key, val) ==
    LET e == [key |-> key, val |-> val]
    IN  IF key \in LruKeys(c)
        THEN Append(LruRemove(c, key), c[LruIndex(c, key)])
        ELSE IF Len(c) >= cache_capacity THEN Append(Tail(c), e)
        ELSE Append(c, e)

\* Lru::put that never evicts
Lru_put_no_evict(c, cache_capacity, key, val) ==
    Append(LruRemove(c, key), [key |-> key, val |-> val])

\* Lru::put that makes room in a full shard before it looks for the key
Lru_put_evict_first(c, cache_capacity, key, val) ==
    LET e == [key |-> key, val |-> val]
        room == IF Len(c) >= cache_capacity /\ c # <<>> THEN Tail(c) ELSE c
    IN  Append(LruRemove(room, key), e)

\* Lru::put (LruCache::put): overwrite and promote, or insert, evicting the
\* least recently used entry of a full shard
Lru_put(c, cache_capacity, key, val) ==
    LET e == [key |-> key, val |-> val]
    IN  IF key \in LruKeys(c) THEN Append(LruRemove(c, key), e)
        ELSE IF Len(c) >= cache_capacity THEN Append(Tail(c), e)
        ELSE Append(c, e)

\* Lru::delete that pops the least recently used entry for a key it does not
\* hold
Lru_delete_pop_lru(c, key) ==
    IF key \in LruKeys(c) \/ c = <<>> THEN LruRemove(c, key) ELSE Tail(c)

\* Lru::delete (LruCache::pop)
Lru_delete(c, key) == LruRemove(c, key)

\* Lru::len
Lru_len(c) == Len(c)

\* Lru::is_empty: self.cache.lock().len() > 0
Lru_is_empty(c) == Lru_len(c) > 0

(***************************************************************************)
(* ShardedCache (cache/sharded_cache.rs).                                  *)
(***************************************************************************)
\* ShardedCache::new: the capacity given to every shard
shard_capacity(cache_capacity, num_shards) ==
    LET adjust == cache_capacity % num_shards
    IN  (cache_capacity + adjust) \div num_shards

\* ShardedCache::new: the shards vector (empty when the cache is disabled)
ShardedCache_new(cfg) ==
    IF cfg.enabled THEN [i \in 1..cfg.num_shards |-> <<>>] ELSE <<>>

\* the two asserts of ShardedCache::new
ShardedCache_new_ok(cfg) ==
    /\ cfg.num_shards > 0
    /\ shard_capacity(cfg.cache_capacity, cfg.num_shards) > 0

ShardCap(cfg) == shard_capacity(cfg.cache_capacity, cfg.num_shards)

\* ShardedCache::get_shard / get_shard_key_val, as 1-based indices
get_shard(cfg, key) == key_slot(key, cfg.num_shards) + 1

get_shard_key_val(cfg, kv) == slot(kv, cfg.num_shards) + 1

\* ShardedCache::get -> [val, shards]
ShardedCache_get(cfg, sh, key) ==
    IF ~cfg.enabled THEN [val |-> None, shards |-> sh]
    ELSE LET i == get_shard(cfg, key)
             r == Lru_get(sh[i], key)
         IN  [val |-> r.val, shards |-> [sh EXCEPT ![i] = r.cache]]

\* ShardedCache::get_key_val -> [val, shards]
ShardedCache_get_key_val(cfg, sh, kv) ==
    IF ~cfg.enabled THEN [val |-> None, shards |-> sh]
    ELSE LET i == get_shard_key_val(cfg, kv)
             r == Lru_get(sh[i], kv.key)
         IN  [val |-> r.val, shards |-> [sh EXCEPT ![i] = r.cache]]

\* ShardedCache::put -> shards (the result is always Ok)
ShardedCache_put(cfg, sh, key, val) ==
    IF ~cfg.enabled THEN sh
    ELSE LET i == get_shard(cfg, key)
         IN  [sh EXCEPT ![i] = Lru_put(sh[i], ShardCap(cfg), key, val)]

\* ShardedCache::put_key_val -> shards
ShardedCache_put_key_val(cfg, sh, kv, val) ==
    IF ~cfg.enabled THEN sh
    ELSE LET i == get_shard_key_val(cfg, kv)
         IN  [sh EXCEPT ![i] = Lru_put(sh[i], ShardCap(cfg), kv.key, val)]

\* ShardedCache::delete -> shards
ShardedCache_delete(cfg, sh, key) ==
    IF ~cfg.enabled THEN sh
    ELSE LET i == get_shard(cfg, key)
         IN  [sh EXCEPT ![i] = Lru_delete(sh[i], key)]

\* the bytes written after every key
CRLF == "\\r\\n"

\* the write of an export that fails, counted from 1 over the whole file (0:
\* none): io "write_err" fails the first write, a key, and "crlf_err" the
\* second, the separator after it
FailingWrite(io) ==
    CASE io = "write_err" -> 1
      [] io = "crlf_err" -> 2
      [] OTHER -> 0

RECURSIVE Reverse(_)
Reverse(q) == IF q = <<>> THEN <<>> ELSE Append(Reverse(Tail(q)), Head(q))

\* the loop of Lru::export_keys over the keys still to write; file is the
\* sequence of the buffers written so far
RECURSIVE export_loop(_, _, _, _)
export_loop(keys, file, total, fail) ==
    IF keys = <<>> THEN [res |-> "Ok", count |-> total, file |-> file]
    ELSE IF Len(file) + 1 = fail
    THEN [res |-> "Err", count |-> 0, file |-> file]
    ELSE IF Len(file) + 2 = fail
    THEN [res |-> "Err", count |-> 0, file |-> Append(file, Head(keys))]
    ELSE export_loop(Tail(keys), file \o <<Head(keys), CRLF>>, total + 1, fail)

\* the keys of shard c as cache.iter() yields them: lru::LruCache::iter
\* visits the entries most recently used first
Lru_iter(c) == Reverse([n \in 1..Len(c) |-> c[n].key])

\* Lru::export_keys -> [res, count, file], onto a file that holds file
Lru_export_keys(c, file, fail) == export_loop(Lru_iter(c), file, 0, fail)

\* a turn that adds the total to itself
export_turn_total_total(c, file, total, fail) ==
    LET r == Lru_export_keys(c, file, fail)
    IN  IF r.res = "Err" THEN r ELSE [r EXCEPT !.count = total + total]

\* one turn of the loop of ShardedCache::export_keys, on shard c:
\* self.shards[i].export_keys(&mut file)? and total += count
export_turn(c, file, total, fail) ==
    LET r == Lru_export_keys(c, file, fail)
    IN  IF r.res = "Err" THEN r ELSE [r EXCEPT !.count = total + r.count]

\* the loop of ShardedCache::export_keys from shard i on
RECURSIVE export_shards(_, _, _, _, _)
export_shards(sh, i, file, total, fail) ==
    IF i > Len(sh) THEN [res |-> "Ok", count |-> total, file |-> file]
    ELSE LET r == export_turn(sh[i], file, total, fail)
         IN  IF r.res = "Err" THEN r
             ELSE export_shards(sh, i + 1, r.file, r.count, fail)

NotExported == [res |-> "Ok", count |-> 0, opened |-> FALSE, file |-> <<>>]

\* the file is opened and the shards are exported
export_opened(sh, io) ==
    LET r == export_shards(sh, 1, <<>>, 0, FailingWrite(io))
    IN  [res |-> r.res, count |-> r.count, opened |-> TRUE, file |-> r.file]

\* an export_keys that does not look at the enabled flag
ShardedCache_export_keys_unchecked(cfg, sh, io) ==
    IF ~cfg.keys_dump_enabled THEN NotExported
    ELSE IF io = "open_err" THEN [NotExported EXCEPT !.res = "Err"]
    ELSE export_opened(sh, io)

\* ShardedCache::export_keys -> [res, count, opened, file], when no other
\* call runs between its shards; io says how the file system answers:
\* "open_err" fails create_dir_all or the open, the others a write
ShardedCache_export_keys(cfg, sh, io) ==
    IF ~cfg.enabled THEN NotExported
    ELSE IF ~cfg.keys_dump_enabled THEN NotExported
    ELSE IF io = "open_err" THEN [NotExported EXCEPT !.res = "Err"]
    ELSE export_opened(sh, io)

(***************************************************************************)
(* RocksDb, the store adapter (db/rocks_db.rs).  The store is a function   *)
(* from keys to values or None; every call into RocksDB may fail.          *)
(***************************************************************************)
Ok(v) == [res |-> "Ok", val |-> v]

Err == [res |-> "Err", val |-> None]

\* rocksdb's DB::put, DB::delete and DB::write of a batch of puts
db_put(st, key, val) == [st EXCEPT ![key] = val]

db_delete(st, key) == [st EXCEPT ![key] = None]

RECURSIVE db_write(_, _)
db_write(st, batch) ==
    IF batch = <<>> THEN st
    ELSE db_write(db_put(st, Head(batch).key, Head(batch).val), Tail(batch))

\* RocksDb::get; ok says whether RocksDB answers
RocksDb_get(db, st, key, ok) ==
    IF ~db.enabled THEN Ok(None)
    ELSE IF ok THEN Ok(st[key])
    ELSE Err

\* a put_async whose send succeeds with every receiver gone
RocksDb_put_async_no_receiver(db, q, key, val, closed) ==
    IF ~db.enabled THEN [res |-> "Ok", queue |-> q]
    ELSE [res |-> "Ok", queue |-> Append(q, KeyVal_new(key, val))]

\* RocksDb::put_async -> [res, queue]: the send on the bounded channel; closed
\* says that every receiver is gone.  A send on a full channel blocks: the
\* callers' actions wait for send_ready.
RocksDb_put_async(db, q, key, val, closed) ==
    IF ~db.enabled THEN [res |-> "Ok", queue |-> q]
    ELSE IF closed THEN [res |-> "Err", queue |-> q]
    ELSE [res |-> "Ok", queue |-> Append(q, KeyVal_new(key, val))]

\* RocksDb::put that drops the error of a failed synchronous write
RocksDb_put_swallow(db, st, q, key, val, ok, closed) ==
    IF ~db.enabled THEN [res |-> "Ok", store |-> st, queue |-> q]
    ELSE IF db.async_write
    THEN LET r == RocksDb_put_async(db, q, key, val, closed)
         IN  [res |-> r.res, store |-> st, queue |-> r.queue]
    ELSE [res |-> "Ok", store |-> IF ok THEN db_put(st, key, val) ELSE st,
          queue |-> q]

\* RocksDb::put that writes through on the asynchronous path too and returns
\* the store's error
RocksDb_put_write_through(db, st, q, key, val, ok, closed) ==
    IF ~db.enabled THEN [res |-> "Ok", store |-> st, queue |-> q]
    ELSE IF ok THEN [res |-> "Ok", store |-> db_put(st, key, val), queue |-> q]
    ELSE [res |-> "Err", store |-> st, queue |-> q]

\* RocksDb::put -> [res, store, queue]
RocksDb_put(db, st, q, key, val, ok, closed) ==
    IF ~db.enabled THEN [res |-> "Ok", store |-> st, queue |-> q]
    ELSE IF db.async_write
    THEN LET r == RocksDb_put_async(db, q, key, val, closed)
         IN  [res |-> r.res, store |-> st, queue |-> r.queue]
    ELSE IF ok THEN [res |-> "Ok", store |-> db_put(st, key, val), queue |-> q]
    ELSE [res |-> "Err", store |-> st, queue |-> q]

\* RocksDb::delete -> [res, store]
RocksDb_delete(db, st, key, ok) ==
    IF ~db.enabled THEN [res |-> "Ok", store |-> st]
    ELSE IF ok THEN [res |-> "Ok", store |-> db_delete(st, key)]
    ELSE [res |-> "Err", store |-> st]

\* a channel whose send never waits for room
send_ready_always(db, q, closed) == TRUE

\* the bounded channel has room, or is closed: a send returns
send_ready(db, q, closed) ==
    ~(db.enabled /\ db.async_write) \/ closed
        \/ Len(q) < db.async_write_queue_length

\* RocksDb::new: the writer threads it spawns
writer_threads(db) ==
    IF db.async_write /\ db.enabled THEN 1..db.num_async_writer_threads ELSE {}

(***************************************************************************)
(* Bounds of the model.                                                    *)
(***************************************************************************)
MaxShards == 2

MaxCapacity == 3

MaxBatch == 2

MaxQueue == 2

MaxWriters == 2

MaxMinBatch == 3

MaxEnqueue == 2

(***************************************************************************)
(* State.                                                                  *)
(***************************************************************************)
VARIABLES
    config,     \* [cache: CacheConfig, db: RocksDbConfig]
    shards,     \* ShardedCache.shards: the Lru shards, index slot + 1
    pending,    \* the records a running ShardedCache::batch_put has still to put
    used,       \* per shard, its keys in order of last use (put or get hit)
    last,       \* the cache get or put that has just returned: what it returned
                \* or evicted
    dump,       \* the ShardedCache::export_keys call in progress: the next shard,
                \* the file written so far, the total and the write that fails
    test_data,  \* the map a test keeps of what it has put and expects to find:
                \* key -> value or None
    store,      \* the RocksDB contents: key -> value or None
    queue,      \* the bounded channel of RocksDb::new, oldest record first
    sent,       \* the ids of the records in queue, in the same order
    wk,         \* the writer threads: where each is in write_to_db, and its data
    shutdown,   \* the shutdown flag
    locks,      \* the shard mutexes that are held: pairs <<thread, shard index>>
    fan,        \* the threads export_lru_keys and backup_db have spawned, one per
                \* DB manager: what each was asked and what it did
    th,         \* the calling threads: the call each is in, or its last result
    enqueued,   \* every record a send has accepted, in order; its index is its id
    acked,      \* how many of them were accepted before shutdown was set
    attempted,  \* the ids of the records a writer has tried to write
    written     \* the ids of the records a writer has written

cacheVars == <<shards, pending, used, last, dump, test_data>>

asyncVars == <<store, queue, sent, wk, shutdown, enqueued, acked, attempted, written>>

vars == <<config, shards, pending, used, last, dump, test_data, store, queue, sent, wk,
          shutdown, locks, fan, th, enqueued, acked, attempted, written>>

NoDump == [pc |-> "idle", shard |-> 0, file |-> <<>>, total |-> 0, fail |-> 0]

NoOp ==
    [op |-> "none", key |-> EmptyBytes, val |-> None, evicted |-> {},
     res |-> "none", count |-> 0, opened |-> FALSE, file |-> <<>>]

DefaultCache ==
    [enabled |-> TRUE, cache_capacity |-> 2, num_shards |-> 2,
     cache_update_on_db_read |-> TRUE, cache_update_on_db_write |-> TRUE,
     keys_dump_enabled |-> TRUE]

DefaultDb ==
    [enabled |-> TRUE, async_write |-> TRUE, num_async_writer_threads |-> 1,
     async_write_queue_length |-> 1, min_count_for_batch_write |-> 2,
     disable_wal |-> FALSE]

Callers == {"t1"}

Idle == [pc |-> "idle", op |-> "none", kv |-> KeyVal_new_with_key("a"),
         res |-> "none", val |-> None, from_cache |-> FALSE]

Writer0 == [pc |-> "drain", data |-> <<>>, ids |-> <<>>, wrote |-> "none"]

\* the state of what a specification leaves alone
CacheIdle ==
    /\ pending = <<>>
    /\ locks = {}
    /\ used = [i \in DOMAIN shards |-> <<>>]
    /\ last = NoOp
    /\ dump = NoDump
    /\ test_data = [k \in Keys |-> None]

StoreIdle ==
    /\ store = [k \in Keys |-> None]
    /\ queue = <<>> /\ sent = <<>>
    /\ wk = [w \in writer_threads(config.db) |-> Writer0]
    /\ shutdown = FALSE
    /\ th = [t \in Callers |-> Idle]
    /\ fan = <<>>
    /\ enqueued = <<>> /\ acked = 0
    /\ attempted = {} /\ written = {}

CacheConfigs ==
    {c \in [enabled : BOOLEAN, cache_capacity : 1..MaxCapacity,
            num_shards : 1..MaxShards,
            cache_update_on_db_read : {TRUE},
            cache_update_on_db_write : {TRUE},
            keys_dump_enabled : BOOLEAN] :
        /\ ShardedCache_new_ok(c)
        /\ c.enabled => (c.keys_dump_enabled <=> c.cache_capacity = 1)}

\* what a put reports in last: the keys it pushed out of shard i
PutOp(sh, sh2, i, key) ==
    [NoOp EXCEPT !.op = "put", !.key = key, !.res = "Ok",
                 !.evicted = IF i \in DOMAIN sh
                             THEN LruKeys(sh[i]) \ LruKeys(sh2[i]) ELSE {}]

GetOp(key, val) == [NoOp EXCEPT !.op = "get", !.key = key, !.val = val]

\* what delete and batch_put report: Ok, always
DeleteOp == [NoOp EXCEPT !.op = "delete", !.res = "Ok"]

BatchOp == [NoOp EXCEPT !.op = "batch_put", !.res = "Ok"]

\* what export_keys reports: its result and what it did to the dump file
ExportOp(r) ==
    [NoOp EXCEPT !.op = "export_keys", !.res = r.res, !.count = r.count,
                 !.opened = r.opened, !.file = r.file]

\* the shard's keys in order of use after key was used, limited to the keys
\* the shard holds afterwards
Touch(u, key, c) ==
    SelectSeq(Append(SelectSeq(u, LAMBDA k : k # key), key),
              LAMBDA k : k \in LruKeys(c))

UsedAfter(cfg, sh2, i, key, hit) ==
    IF ~cfg.enabled THEN used
    ELSE [used EXCEPT ![i] =
            IF hit THEN Touch(used[i], key, sh2[i])
            ELSE SelectSeq(used[i], LAMBDA k : k \in LruKeys(sh2[i]))]

InitCache ==
    /\ config \in {[cache |-> c, db |-> [DefaultDb EXCEPT !.enabled = FALSE]] :
                       c \in CacheConfigs}
    /\ shards = ShardedCache_new(config.cache)
    /\ CacheIdle
    /\ StoreIdle

(***************************************************************************)
(* ShardedCache operations, each one call by some thread.                  *)
(***************************************************************************)
CachePut(key, val) ==
    LET cfg == config.cache
        sh2 == ShardedCache_put(cfg, shards, key, val)
    IN  /\ shards' = sh2
        /\ used' = UsedAfter(cfg, sh2, get_shard(cfg, key), key, TRUE)
        /\ last' = PutOp(shards, sh2, get_shard(cfg, key), key)
        /\ UNCHANGED <<config, fan, locks, dump, test_data, pending, th, asyncVars>>

CachePutKeyVal(kv, val) ==
    LET cfg == config.cache
        sh2 == ShardedCache_put_key_val(cfg, shards, kv, val)
    IN  /\ shards' = sh2
        /\ used' = UsedAfter(cfg, sh2, get_shard_key_val(cfg, kv), kv.key, TRUE)
        /\ last' = PutOp(shards, sh2, get_shard_key_val(cfg, kv), kv.key)
        /\ UNCHANGED <<config, fan, locks, dump, test_data, pending, th, asyncVars>>

CacheGet(key) ==
    LET cfg == config.cache
        r == ShardedCache_get(cfg, shards, key)
    IN  /\ shards' = r.shards
        /\ used' = UsedAfter(cfg, r.shards, get_shard(cfg, key), key, r.val # None)
        /\ last' = GetOp(key, r.val)
        /\ UNCHANGED <<config, fan, locks, dump, test_data, pending, th, asyncVars>>

CacheGetKeyVal(kv) ==
    LET cfg == config.cache
        r == ShardedCache_get_key_val(cfg, shards, kv)
    IN  /\ shards' = r.shards
        /\ used' = UsedAfter(cfg, r.shards, get_shard_key_val(cfg, kv), kv.key,
                             r.val # None)
        /\ last' = GetOp(kv.key, r.val)
        /\ UNCHANGED <<config, fan, locks, dump, test_data, pending, th, asyncVars>>

CacheDelete(key) ==
    LET cfg == config.cache
        sh2 == ShardedCache_delete(cfg, shards, key)
    IN  /\ shards' = sh2
        /\ used' = UsedAfter(cfg, sh2, get_shard(cfg, key), key, FALSE)
        /\ last' = DeleteOp
        /\ UNCHANGED <<config, fan, locks, dump, test_data, pending, th, asyncVars>>

\* one turn of the export loop on shard i, under that shard's lock: the
\* export returns after an error or after the last shard (file.sync_data,
\* whose error is logged), and goes on to the next shard otherwise
ExportTurn(i, file, total, fail) ==
    LET r == export_turn(shards[i], file, total, fail)
    IN  IF r.res = "Err" \/ i = Len(shards)
        THEN /\ last' = ExportOp([res |-> r.res, count |-> r.count,
                                  opened |-> TRUE, file |-> r.file])
             /\ dump' = NoDump
        ELSE /\ last' = last
             /\ dump' = [pc |-> "run", shard |-> i + 1, file |-> r.file,
                         total |-> r.count, fail |-> fail]

\* ShardedCache::export_keys is called: it returns at once from a disabled
\* cache or dump and when the file cannot be opened; otherwise it opens the
\* file and exports the first shard
CacheExportKeys(io) ==
    /\ dump.pc = "idle"
    /\ LET cfg == config.cache
       IN  IF ~cfg.enabled \/ ~cfg.keys_dump_enabled \/ io = "open_err"
           THEN /\ last' = ExportOp(ShardedCache_export_keys(cfg, shards, io))
                /\ dump' = dump
           ELSE ExportTurn(1, <<>>, 0, FailingWrite(io))
    /\ UNCHANGED <<config, fan, locks, test_data, shards, pending, used, th,
                   asyncVars>>

\* ShardedCache::export_keys: the next shard
CacheExportShard ==
    /\ dump.pc = "run"
    /\ ExportTurn(dump.shard, dump.file, dump.total, dump.fail)
    /\ UNCHANGED <<config, fan, locks, test_data, shards, pending, used, th,
                   asyncVars>>

\* ShardedCache::batch_put: the call starts; a disabled cache returns at once
CacheBatchPut(data) ==
    /\ pending = <<>>
    /\ pending' = IF config.cache.enabled THEN data ELSE <<>>
    /\ last' = BatchOp
    /\ UNCHANGED <<config, fan, locks, dump, test_data, shards, used, th, asyncVars>>

\* ShardedCache::batch_put: one turn of its loop, one shard lock taken
CacheBatchPutStep ==
    /\ pending # <<>>
    /\ LET cfg == config.cache
           kv == Head(pending)
           sh2 == ShardedCache_put_key_val(cfg, shards, kv, kv.val)
       IN  /\ shards' = sh2
           /\ used' = UsedAfter(cfg, sh2, get_shard_key_val(cfg, kv), kv.key, TRUE)
    /\ pending' = Tail(pending)
    /\ UNCHANGED <<config, fan, locks, dump, test_data, last, th, asyncVars>>

\* what callers put: every key with one value, and key a with a second one
CachePuts == {<<k, "1">> : k \in Keys} \cup {<<"a", "2">>}

\* the records callers hand to put_key_val and get_key_val
CachePutRecords ==
    {kv \in PutRecords : <<kv.key, kv.val>> \in {<<"a", "1">>, <<"a", "2">>, <<"d", "1">>}}

CacheKeyRecords == {kv \in KeyRecords : kv.key \in {"a", "d"}}

\* the batches callers hand to batch_put
BatchRecords ==
    {KeyVal_new("a", "2"), KeyVal_new_with_hash(get_hash_code("c"), "d", "1")}

Batches == UNION {[1..n -> BatchRecords] : n \in 1..MaxBatch}

\* how the file system answers an export
ExportIos == {"ok", "open_err", "write_err", "crlf_err"}

NextCache ==
    \/ \E p \in CachePuts : CachePut(p[1], p[2])
    \/ \E kv \in CachePutRecords : CachePutKeyVal(kv, kv.val)
    \/ \E k \in Keys : CacheGet(k)
    \/ \E kv \in CacheKeyRecords : CacheGetKeyVal(kv)
    \/ \E k \in Keys : CacheDelete(k)
    \/ \E data \in Batches : CacheBatchPut(data)
    \/ \E io \in ExportIos : CacheExportKeys(io)
    \/ CacheExportShard
    \/ CacheBatchPutStep

SpecCache == InitCache /\ [][NextCache]_vars

(***************************************************************************)
(* The put-and-get tests of the cache: threads put at most cache_capacity  *)
(* distinct keys into a new cache, the test keeping each key's value in    *)
(* its own map, and then get the keys of the map.  Every put and get runs  *)
(* under its shard's lock, so the threads' calls happen one at a time.     *)
(***************************************************************************)
Inserted == {k \in Keys : test_data[k] # None}

\* data.insert(key, val) and shards_ref.put(key, val)
TestPut(key, val) ==
    LET cfg == config.cache
        sh2 == ShardedCache_put(cfg, shards, key, val)
    IN  /\ Cardinality(Inserted \cup {key}) <= cfg.cache_capacity
        /\ test_data' = [test_data EXCEPT ![key] = val]
        /\ shards' = sh2
        /\ used' = UsedAfter(cfg, sh2, get_shard(cfg, key), key, TRUE)
        /\ last' = PutOp(shards, sh2, get_shard(cfg, key), key)
        /\ UNCHANGED <<config, fan, locks, dump, pending, th, asyncVars>>

\* shards_ref.get(key) for a key of data
TestGet(key) ==
    LET cfg == config.cache
        r == ShardedCache_get(cfg, shards, key)
    IN  /\ key \in Inserted
        /\ shards' = r.shards
        /\ used' = UsedAfter(cfg, r.shards, get_shard(cfg, key), key, r.val # None)
        /\ last' = GetOp(key, r.val)
        /\ UNCHANGED <<config, fan, locks, dump, test_data, pending, th, asyncVars>>

InitTest ==
    /\ InitCache
    /\ config.cache.enabled

NextTest ==
    \/ \E k \in Keys, v \in Vals : TestPut(k, v)
    \/ \E k \in Keys : TestGet(k)

SpecTest == InitTest /\ [][NextTest]_vars

(***************************************************************************)
(* The asynchronous writers (RocksDb::write_to_db), one action per step of *)
(* the loop, and the callers of RocksDb::put.                              *)
(***************************************************************************)
Closed == \A w \in DOMAIN wk : wk[w].pc = "exited"

\* a receiver that reads the next record and leaves it in the channel for the
\* other receivers
WriterRecv_keep_in_channel(w) ==
    /\ wk[w].pc = "drain"
    /\ queue # <<>>
    /\ Head(sent) \notin {wk[w].ids[i] : i \in 1..Len(wk[w].ids)}
    /\ wk' = [wk EXCEPT ![w].data = Append(@, Head(queue)),
                        ![w].ids = Append(@, Head(sent))]
    /\ UNCHANGED <<config, fan, locks, cacheVars, store, queue, sent, shutdown, th,
                   enqueued, acked, attempted, written>>

\* receiver.try_iter() yields the next record
WriterRecv(w) ==
    /\ wk[w].pc = "drain"
    /\ queue # <<>>
    /\ wk' = [wk EXCEPT ![w].data = Append(@, Head(queue)),
                        ![w].ids = Append(@, Head(sent))]
    /\ queue' = Tail(queue)
    /\ sent' = Tail(sent)
    /\ UNCHANGED <<config, fan, locks, cacheVars, store, shutdown, th, enqueued, acked,
                   attempted, written>>

\* a loop that batches only more than min_count_for_batch_write records
WriterDrained_batch_above(w) ==
    /\ wk[w].pc = "drain"
    /\ queue = <<>>
    /\ wk' = [wk EXCEPT ![w].pc =
                IF wk[w].data = <<>> THEN "check"
                ELSE IF Len(wk[w].data) <= config.db.min_count_for_batch_write
                THEN "put"
                ELSE "batch"]
    /\ UNCHANGED <<config, fan, locks, cacheVars, store, queue, sent, shutdown, th,
                   enqueued,
                   acked, attempted, written>>

\* try_iter() finds the channel empty: collect() returns data
WriterDrained(w) ==
    /\ wk[w].pc = "drain"
    /\ queue = <<>>
    /\ wk' = [wk EXCEPT ![w].pc =
                IF wk[w].data = <<>> THEN "check"
                ELSE IF Len(wk[w].data) < config.db.min_count_for_batch_write
                THEN "put"
                ELSE "batch"]
    /\ UNCHANGED <<config, fan, locks, cacheVars, store, queue, sent, shutdown, th,
                   enqueued,
                   acked, attempted, written>>

\* a loop that returns on empty data without loading the shutdown flag
WriterCheck_return_unasked(w) ==
    /\ wk[w].pc = "check"
    /\ wk' = [wk EXCEPT ![w].pc = "exited"]
    /\ UNCHANGED <<config, fan, locks, cacheVars, store, queue, sent, shutdown, th,
                   enqueued,
                   acked, attempted, written>>

\* a loop that sleeps on empty data whatever the shutdown flag says
WriterCheck_sleep_on(w) ==
    /\ wk[w].pc = "check"
    /\ wk' = [wk EXCEPT ![w].pc = "drain"]
    /\ UNCHANGED <<config, fan, locks, cacheVars, store, queue, sent, shutdown, th,
                   enqueued,
                   acked, attempted, written>>

\* data is empty: load the shutdown flag; return, or sleep and loop
WriterCheck(w) ==
    /\ wk[w].pc = "check"
    /\ wk' = [wk EXCEPT ![w].pc = IF shutdown THEN "exited" ELSE "drain"]
    /\ UNCHANGED <<config, fan, locks, cacheVars, store, queue, sent, shutdown, th,
                   enqueued,
                   acked, attempted, written>>

\* a loop that returns at the first db.put that fails
WriterPut_return_on_error(w) ==
    /\ wk[w].pc = "put"
    /\ \E ok \in BOOLEAN :
        LET kv == Head(wk[w].data)
            id == Head(wk[w].ids)
        IN  /\ store' = IF ok THEN db_put(store, kv.key, kv.val) ELSE store
            /\ attempted' = attempted \cup {id}
            /\ written' = IF ok THEN written \cup {id} ELSE written
            /\ wk' = [wk EXCEPT ![w].data = Tail(@), ![w].ids = Tail(@),
                                ![w].wrote = "put",
                                ![w].pc = IF ~ok THEN "exited"
                                          ELSE IF Len(wk[w].data) = 1 THEN "drain"
                                          ELSE "put"]
    /\ UNCHANGED <<config, fan, locks, cacheVars, queue, sent, shutdown, th,
                   enqueued, acked>>

\* fewer records than min_count_for_batch_write: db.put of the next one; an
\* error is logged
WriterPut(w) ==
    /\ wk[w].pc = "put"
    /\ \E ok \in BOOLEAN :
        LET kv == Head(wk[w].data)
            id == Head(wk[w].ids)
        IN  /\ store' = IF ok THEN db_put(store, kv.key, kv.val) ELSE store
            /\ attempted' = attempted \cup {id}
            /\ written' = IF ok THEN written \cup {id} ELSE written
    /\ wk' = [wk EXCEPT ![w].data = Tail(@), ![w].ids = Tail(@),
                        ![w].wrote = "put",
                        ![w].pc = IF Len(wk[w].data) = 1 THEN "drain" ELSE "put"]
    /\ UNCHANGED <<config, fan, locks, cacheVars, queue, sent, shutdown, th,
                   enqueued, acked>>

\* otherwise: one WriteBatch of all of data, through db.write_without_wal
\* when disable_wal is set and db.write when not; an error is logged
WriterBatch(w) ==
    /\ wk[w].pc = "batch"
    /\ \E ok \in BOOLEAN :
        LET ids == {wk[w].ids[i] : i \in 1..Len(wk[w].ids)}
        IN  /\ store' = IF ok THEN db_write(store, wk[w].data) ELSE store
            /\ attempted' = attempted \cup ids
            /\ written' = IF ok THEN written \cup ids ELSE written
    /\ wk' = [wk EXCEPT ![w].data = <<>>, ![w].ids = <<>>,
                        ![w].wrote = IF config.db.disable_wal
                                     THEN "write_without_wal" ELSE "write",
                        ![w].pc = "drain"]
    /\ UNCHANGED <<config, fan, locks, cacheVars, queue, sent, shutdown, th,
                   enqueued, acked>>

\* the application sets the shutdown flag
SetShutdown ==
    /\ ~shutdown
    /\ shutdown' = TRUE
    /\ UNCHANGED <<config, fan, locks, cacheVars, store, queue, sent, wk, th,
                   enqueued, acked,
                   attempted, written>>

Returned(op, kv, res, val, from_cache) ==
    [pc |-> "idle", op |-> op, kv |-> kv, res |-> res, val |-> val,
     from_cache |-> from_cache]

\* the ghost record of a send: what enqueued, sent and acked become when the
\* queue goes from q to q2
Enqueue(q2) ==
    IF Len(q2) > Len(queue)
    THEN /\ enqueued' = Append(enqueued, q2[Len(q2)])
         /\ sent' = Append(sent, Len(enqueued) + 1)
         /\ acked' = IF shutdown THEN acked ELSE acked + 1
    ELSE UNCHANGED <<enqueued, sent, acked>>

\* a thread calls RocksDb::put
RocksPut(t, key, val) ==
    /\ th[t].pc = "idle"
    /\ send_ready(config.db, queue, Closed)
    /\ Len(enqueued) < MaxEnqueue
    /\ \E ok \in BOOLEAN :
        LET r == RocksDb_put(config.db, store, queue, key, val, ok, Closed)
        IN  /\ store' = r.store
            /\ queue' = r.queue
            /\ Enqueue(r.queue)
            /\ th' = [th EXCEPT ![t] =
                        Returned("db_put", KeyVal_new(key, val), r.res, None, FALSE)]
    /\ UNCHANGED <<config, fan, locks, cacheVars, wk, shutdown, attempted, written>>

DbKeys == {"a", "b"}

AsyncConfigs ==
    {[cache |-> [DefaultCache EXCEPT !.enabled = FALSE], db |-> d] :
        d \in [enabled : {TRUE}, async_write : {TRUE},
               num_async_writer_threads : 1..MaxWriters,
               async_write_queue_length : 1..MaxQueue,
               min_count_for_batch_write : 1..MaxMinBatch,
               disable_wal : BOOLEAN]}

InitAsync ==
    /\ config \in AsyncConfigs
    /\ shards = ShardedCache_new(config.cache)
    /\ CacheIdle
    /\ StoreIdle

NextAsync ==
    \/ \E t \in Callers, k \in DbKeys, v \in Vals : RocksPut(t, k, v)
    \/ \E w \in DOMAIN wk : WriterRecv(w)
    \/ \E w \in DOMAIN wk : WriterDrained(w)
    \/ \E w \in DOMAIN wk : WriterCheck(w)
    \/ \E w \in DOMAIN wk : WriterPut(w)
    \/ \E w \in DOMAIN wk : WriterBatch(w)
    \/ SetShutdown

SpecAsync == InitAsync /\ [][NextAsync]_vars

\* a step of writer thread w: the thread runs write_to_db until it returns
write_to_db(w) ==
    /\ w \in DOMAIN wk
    /\ \/ WriterRecv(w)
       \/ WriterDrained(w)
       \/ WriterCheck(w)
       \/ WriterPut(w)
       \/ WriterBatch(w)

\* the scheduler lets every writer thread run, its sleep ends and its writes of
\* the store return; the callers send at most MaxEnqueue records, so they stop
SpecAsyncFair ==
    /\ SpecAsync
    /\ \A w \in 1..MaxWriters : WF_vars(write_to_db(w))

(***************************************************************************)
(* DbManager (db/db_manager.rs).  A call is a sequence of steps, one per   *)
(* access to the cache or to the store; other threads run in between.      *)
(* DbManager.db is None exactly when the store is not enabled.             *)
(***************************************************************************)
InCall(pc, op, kv, val) ==
    [pc |-> pc, op |-> op, kv |-> kv, res |-> "none", val |-> val,
     from_cache |-> FALSE]

\* get / get_key_val: the cache lookup r; a hit returns, a miss goes on to the
\* store when there is one
get_begin(t, op, kv, r) ==
    /\ th[t].pc = "idle"
    /\ shards' = r.shards
    /\ th' = [th EXCEPT ![t] =
                IF r.val # None THEN Returned(op, kv, "Found", r.val, TRUE)
                ELSE IF ~config.db.enabled
                THEN Returned(op, kv, "Absent", None, FALSE)
                ELSE InCall("get_db", op, kv, None)]
    /\ UNCHANGED <<config, fan, locks, dump, test_data, pending, used, last,
                   asyncVars>>

DbManager_get(t, key) ==
    get_begin(t, "get", KeyVal_new_with_key(key),
              ShardedCache_get(config.cache, shards, key))

DbManager_get_key_val(t, kv) ==
    get_begin(t, "get_key_val", kv,
              ShardedCache_get_key_val(config.cache, shards, kv))

\* get / get_key_val that update the cache whatever cache_update_on_db_read is
DbManager_get_db_always_update(t) ==
    /\ th[t].pc = "get_db"
    /\ \E ok \in BOOLEAN :
        LET c == th[t]
            r == RocksDb_get(config.db, store, c.kv.key, ok)
        IN  th' = [th EXCEPT ![t] =
                     IF r.res = "Err" THEN Returned(c.op, c.kv, "Err", None, FALSE)
                     ELSE IF r.val = None
                     THEN Returned(c.op, c.kv, "Absent", None, FALSE)
                     ELSE InCall("get_update", c.op, c.kv, r.val)]
    /\ UNCHANGED <<config, fan, locks, cacheVars, asyncVars>>

\* get / get_key_val: self.db.get(key) and the match on its result
DbManager_get_db(t) ==
    /\ th[t].pc = "get_db"
    /\ \E ok \in BOOLEAN :
        LET c == th[t]
            r == RocksDb_get(config.db, store, c.kv.key, ok)
        IN  th' = [th EXCEPT ![t] =
                     IF r.res = "Err" THEN Returned(c.op, c.kv, "Err", None, FALSE)
                     ELSE IF r.val = None
                     THEN Returned(c.op, c.kv, "Absent", None, FALSE)
                     ELSE IF config.cache.cache_update_on_db_read
                     THEN InCall("get_update", c.op, c.kv, r.val)
                     ELSE Returned(c.op, c.kv, "Found", r.val, FALSE)]
    /\ UNCHANGED <<config, fan, locks, cacheVars, asyncVars>>

\* get / get_key_val that return the store's value without the cache update
DbManager_get_update_no_put(t) ==
    /\ th[t].pc = "get_update"
    /\ th' = [th EXCEPT ![t] =
                Returned(th[t].op, th[t].kv, "Found", th[t].val, FALSE)]
    /\ UNCHANGED <<config, fan, locks, cacheVars, asyncVars>>

\* get: self.cache.put(key, value); get_key_val: self.cache.put_key_val(kv,
\* value); the result of either is dropped
DbManager_get_update(t) ==
    /\ th[t].pc = "get_update"
    /\ LET c == th[t]
       IN  /\ shards' =
                IF c.op = "get"
                THEN ShardedCache_put(config.cache, shards, c.kv.key, c.val)
                ELSE ShardedCache_put_key_val(config.cache, shards, c.kv, c.val)
           /\ th' = [th EXCEPT ![t] = Returned(c.op, c.kv, "Found", c.val, FALSE)]
    /\ UNCHANGED <<config, fan, locks, dump, test_data, pending, used, last,
                   asyncVars>>

\* put / put_key_val that skip the store when the cache is disabled
put_begin_skip_store(t, op, kv) ==
    /\ th[t].pc = "idle"
    /\ send_ready(config.db, queue, Closed)
    /\ (config.db.enabled /\ config.db.async_write) => Len(enqueued) < MaxEnqueue
    /\ \E ok \in BOOLEAN :
        LET r == IF config.db.enabled /\ config.cache.enabled
                 THEN RocksDb_put(config.db, store, queue, kv.key, kv.val, ok, Closed)
                 ELSE [res |-> "Ok", store |-> store, queue |-> queue]
        IN  /\ store' = r.store
            /\ queue' = r.queue
            /\ Enqueue(r.queue)
            /\ th' = [th EXCEPT ![t] =
                        IF r.res = "Err" THEN Returned(op, kv, "Err", None, FALSE)
                        ELSE IF config.cache.cache_update_on_db_write
                        THEN InCall("put_update", op, kv, None)
                        ELSE Returned(op, kv, "Ok", None, FALSE)]
    /\ UNCHANGED <<config, fan, locks, cacheVars, wk, shutdown, attempted, written>>

\* put / put_key_val: self.db.put(key, val)?, when there is a store
put_begin(t, op, kv) ==
    /\ th[t].pc = "idle"
    /\ send_ready(config.db, queue, Closed)
    /\ (config.db.enabled /\ config.db.async_write) => Len(enqueued) < MaxEnqueue
    /\ \E ok \in BOOLEAN :
        LET r == IF config.db.enabled
                 THEN RocksDb_put(config.db, store, queue, kv.key, kv.val, ok, Closed)
                 ELSE [res |-> "Ok", store |-> store, queue |-> queue]
        IN  /\ store' = r.store
            /\ queue' = r.queue
            /\ Enqueue(r.queue)
            /\ th' = [th EXCEPT ![t] =
                        IF r.res = "Err" THEN Returned(op, kv, "Err", None, FALSE)
                        ELSE IF config.cache.cache_update_on_db_write
                        THEN InCall("put_update", op, kv, None)
                        ELSE Returned(op, kv, "Ok", None, FALSE)]
    /\ UNCHANGED <<config, fan, locks, cacheVars, wk, shutdown, attempted, written>>

DbManager_put(t, key, val) == put_begin(t, "put", KeyVal_new(key, val))

DbManager_put_key_val(t, kv) == put_begin(t, "put_key_val", kv)

\* put / put_key_val that return Ok without the cache update
DbManager_put_update_no_put(t) ==
    /\ th[t].pc = "put_update"
    /\ th' = [th EXCEPT ![t] = Returned(th[t].op, th[t].kv, "Ok", None, FALSE)]
    /\ UNCHANGED <<config, fan, locks, cacheVars, asyncVars>>

\* put / put_key_val: self.cache.put(key, val)? (it always returns Ok)
DbManager_put_update(t) ==
    /\ th[t].pc = "put_update"
    /\ LET c == th[t]
       IN  /\ shards' = ShardedCache_put(config.cache, shards, c.kv.key, c.kv.val)
           /\ th' = [th EXCEPT ![t] = Returned(c.op, c.kv, "Ok", None, FALSE)]
    /\ UNCHANGED <<config, fan, locks, dump, test_data, pending, used, last,
                   asyncVars>>

\* delete / delete_key_val: let _ = self.cache.delete(key)
delete_begin(t, op, kv) ==
    /\ th[t].pc = "idle"
    /\ shards' = ShardedCache_delete(config.cache, shards, kv.key)
    /\ th' = [th EXCEPT ![t] =
                IF config.db.enabled THEN InCall("delete_db", op, kv, None)
                ELSE Returned(op, kv, "Ok", None, FALSE)]
    /\ UNCHANGED <<config, fan, locks, dump, test_data, pending, used, last,
                   asyncVars>>

DbManager_delete(t, key) == delete_begin(t, "delete", KeyVal_new_with_key(key))

DbManager_delete_key_val(t, kv) == delete_begin(t, "delete_key_val", kv)

\* delete / delete_key_val: return self.db.delete(key)
DbManager_delete_db(t) ==
    /\ th[t].pc = "delete_db"
    /\ \E ok \in BOOLEAN :
        LET c == th[t]
            r == RocksDb_delete(config.db, store, c.kv.key, ok)
        IN  /\ store' = r.store
            /\ th' = [th EXCEPT ![t] = Returned(c.op, c.kv, r.res, None, FALSE)]
    /\ UNCHANGED <<config, fan, locks, cacheVars, queue, sent, wk, shutdown,
                   enqueued, acked,
                   attempted, written>>

\* the records the callers of the DbManager build
MgrPutRecords == {kv \in PutRecords : kv.key \in DbKeys}

MgrKeyRecords == {kv \in KeyRecords : kv.key \in DbKeys}

\* the configurations of the DbManager, over a two-shard cache of one entry
\* per shard: with a synchronous store or none, every setting of the cache
\* switches; with the writer thread (one, on a queue of one record), the cache
\* fully on or off
SyncDb ==
    [DefaultDb EXCEPT !.async_write = FALSE]

MgrCaches ==
    {c \in [enabled : BOOLEAN, cache_capacity : {2}, num_shards : {2},
            cache_update_on_db_read : BOOLEAN,
            cache_update_on_db_write : BOOLEAN,
            keys_dump_enabled : {TRUE}] :
        c.enabled \/ (c.cache_update_on_db_read /\ c.cache_update_on_db_write)}

MgrConfigs ==
    {[cache |-> c, db |-> d] :
        c \in MgrCaches, d \in {SyncDb, [SyncDb EXCEPT !.enabled = FALSE]}}
    \cup {[cache |-> c, db |-> DefaultDb] :
            c \in {DefaultCache, [DefaultCache EXCEPT !.enabled = FALSE]}}

Init ==
    /\ config \in MgrConfigs
    /\ shards = ShardedCache_new(config.cache)
    /\ CacheIdle
    /\ StoreIdle

Next ==
    \/ \E t \in Callers, k \in DbKeys : DbManager_get(t, k)
    \/ \E t \in Callers, kv \in MgrKeyRecords : DbManager_get_key_val(t, kv)
    \/ \E t \in Callers : DbManager_get_db(t)
    \/ \E t \in Callers : DbManager_get_update(t)
    \/ \E t \in Callers, k \in DbKeys, v \in Vals : DbManager_put(t, k, v)
    \/ \E t \in Callers, kv \in MgrPutRecords : DbManager_put_key_val(t, kv)
    \/ \E t \in Callers : DbManager_put_update(t)
    \/ \E t \in Callers, k \in DbKeys : DbManager_delete(t, k)
    \/ \E t \in Callers, kv \in MgrKeyRecords : DbManager_delete_key_val(t, kv)
    \/ \E t \in Callers : DbManager_delete_db(t)
    \/ \E w \in DOMAIN wk : WriterRecv(w)
    \/ \E w \in DOMAIN wk : WriterDrained(w)
    \/ \E w \in DOMAIN wk : WriterCheck(w)
    \/ \E w \in DOMAIN wk : WriterPut(w)
    \/ \E w \in DOMAIN wk : WriterBatch(w)
    \/ SetShutdown

Spec == Init /\ [][Next]_vars

(***************************************************************************)
(* Two threads on one DbManager with a synchronous store and the cache     *)
(* enabled.  In the first specification thread t1 puts and deletes while   *)
(* thread t2 gets; in the second both threads put.                         *)
(***************************************************************************)
Threads == {"t1", "t2"}

TwoConfigs == {[cache |-> c, db |-> SyncDb] : c \in {m \in MgrCaches : m.enabled}}

InitTwo ==
    /\ config \in TwoConfigs
    /\ shards = ShardedCache_new(config.cache)
    /\ CacheIdle
    /\ store = [k \in Keys |-> None]
    /\ queue = <<>> /\ sent = <<>>
    /\ wk = [w \in writer_threads(config.db) |-> Writer0]
    /\ shutdown = FALSE
    /\ th = [t \in Threads |-> Idle]
    /\ fan = <<>>
    /\ enqueued = <<>> /\ acked = 0
    /\ attempted = {} /\ written = {}

NextGetDelete ==
    \/ \E k \in DbKeys, v \in Vals : DbManager_put("t1", k, v)
    \/ DbManager_put_update("t1")
    \/ \E k \in DbKeys : DbManager_delete("t1", k)
    \/ DbManager_delete_db("t1")
    \/ \E k \in DbKeys : DbManager_get("t2", k)
    \/ DbManager_get_db("t2")
    \/ DbManager_get_update("t2")

SpecGetDelete == InitTwo /\ [][NextGetDelete]_vars

NextTwoPuts ==
    \/ \E t \in Threads, k \in DbKeys, v \in Vals : DbManager_put(t, k, v)
    \/ \E t \in Threads : DbManager_put_update(t)

SpecTwoPuts == InitTwo /\ [][NextTwoPuts]_vars

(***************************************************************************)
(* The shard mutex in the calls of the DbManager: Lru::get, put and delete *)
(* take self.cache.lock() in the statement that calls the LruCache, and    *)
(* the guard, a temporary of that statement, is dropped before the Lru     *)
(* method returns.  A call of a thread is at lock (waiting for the mutex   *)
(* in an Lru method), at locked (holding it) or at store (in the RocksDb   *)
(* call).  A get whose val is set has read the store and is in cache.put.  *)
(***************************************************************************)
LockFree(i) == \A p \in locks : p[2] # i

\* the mutex of shard i stays with thread t after the Lru method
unlocked_never(t, i) == locks

\* the MutexGuard of shard i, held by thread t, is dropped
unlocked(t, i) == locks \ {<<t, i>>}

\* a thread calls DbManager::get or delete, which call the cache first, or
\* put, which calls the store first
LockCall(t, op, key, val) ==
    /\ th[t].pc = "idle"
    /\ th' = [th EXCEPT ![t] =
                IF op = "put" THEN InCall("store", op, KeyVal_new(key, val), None)
                ELSE InCall("lock", op, KeyVal_new_with_key(key), None)]
    /\ UNCHANGED <<config, fan, locks, cacheVars, asyncVars>>

\* self.cache.lock() returns the guard: the mutex was free
LockAcquire(t) ==
    LET i == get_shard(config.cache, th[t].kv.key)
    IN  /\ th[t].pc = "lock"
        /\ LockFree(i)
        /\ locks' = locks \cup {<<t, i>>}
        /\ th' = [th EXCEPT ![t].pc = "locked"]
        /\ UNCHANGED <<config, fan, cacheVars, asyncVars>>

\* the LruCache call under the guard, and the end of the Lru method
LockRelease(t) ==
    LET c == th[t]
        cfg == config.cache
        i == get_shard(cfg, c.kv.key)
        r == ShardedCache_get(cfg, shards, c.kv.key)
    IN  /\ c.pc = "locked"
        /\ locks' = unlocked(t, i)
        /\ IF c.op = "get" /\ c.val = None
           THEN /\ shards' = r.shards
                /\ th' = [th EXCEPT ![t] =
                            IF r.val # None
                            THEN Returned(c.op, c.kv, "Found", r.val, TRUE)
                            ELSE InCall("store", c.op, c.kv, None)]
           ELSE IF c.op = "get"
           THEN /\ shards' = ShardedCache_put(cfg, shards, c.kv.key, c.val)
                /\ th' = [th EXCEPT ![t] =
                            Returned(c.op, c.kv, "Found", c.val, FALSE)]
           ELSE IF c.op = "put"
           THEN /\ shards' = ShardedCache_put(cfg, shards, c.kv.key, c.kv.val)
                /\ th' = [th EXCEPT ![t] = Returned(c.op, c.kv, "Ok", None, FALSE)]
           ELSE /\ shards' = ShardedCache_delete(cfg, shards, c.kv.key)
                /\ th' = [th EXCEPT ![t] = InCall("store", c.op, c.kv, None)]
        /\ UNCHANGED <<config, fan, dump, test_data, pending, used, last,
                       asyncVars>>

\* the RocksDb call of get, put or delete and what the DbManager does with
\* its result
LockStore(t) ==
    LET c == th[t]
    IN  /\ c.pc = "store"
        /\ \E ok \in BOOLEAN :
            LET g == RocksDb_get(config.db, store, c.kv.key, ok)
                p == RocksDb_put(config.db, store, queue, c.kv.key, c.kv.val, ok,
                                 Closed)
                d == RocksDb_delete(config.db, store, c.kv.key, ok)
            IN  IF c.op = "get"
                THEN /\ store' = store
                     /\ th' = [th EXCEPT ![t] =
                                 IF g.res = "Err"
                                 THEN Returned(c.op, c.kv, "Err", None, FALSE)
                                 ELSE IF g.val = None
                                 THEN Returned(c.op, c.kv, "Absent", None, FALSE)
                                 ELSE IF config.cache.cache_update_on_db_read
                                 THEN InCall("lock", c.op, c.kv, g.val)
                                 ELSE Returned(c.op, c.kv, "Found", g.val, FALSE)]
                ELSE IF c.op = "put"
                THEN /\ store' = p.store
                     /\ th' = [th EXCEPT ![t] =
                                 IF p.res = "Err"
                                 THEN Returned(c.op, c.kv, "Err", None, FALSE)
                                 ELSE IF config.cache.cache_update_on_db_write
                                 THEN InCall("lock", c.op, c.kv, None)
                                 ELSE Returned(c.op, c.kv, "Ok", None, FALSE)]
                ELSE /\ store' = d.store
                     /\ th' = [th EXCEPT ![t] =
                                 Returned(c.op, c.kv, d.res, None, FALSE)]
        /\ UNCHANGED <<config, fan, locks, cacheVars, queue, sent, wk, shutdown,
                       enqueued, acked, attempted, written>>

LockOps == {"get", "put", "delete"}

NextLock ==
    \/ \E t \in Threads, op \in LockOps, k \in DbKeys, v \in Vals :
            LockCall(t, op, k, v)
    \/ \E t \in Threads : LockAcquire(t)
    \/ \E t \in Threads : LockRelease(t)
    \/ \E t \in Threads : LockStore(t)

SpecLock == InitTwo /\ [][NextLock]_vars

(***************************************************************************)
(* Bhatho: the choice of the DbManager for a request.                      *)
(***************************************************************************)
RouterKeys == {"user:42", "user:7", "item:1"}

\* the bytes of a key, one character each (String::from_utf8_lossy of an
\* ASCII key)
key_text(key) ==
    CASE key = "user:42" -> <<"u", "s", "e", "r", ":", "4", "2">>
      [] key = "user:7" -> <<"u", "s", "e", "r", ":", "7">>
      [] key = "item:1" -> <<"i", "t", "e", "m", ":", "1">>

\* a regex is a literal, anchored at the start of the text (^lit) or not;
\* captures_iter yields a match, whose group 0 is always there, when the
\* literal starts the text, or occurs in it
regex_is_match(re, text) ==
    \E i \in 1..(Len(text) - Len(re.lit) + 1) :
        /\ re.anchored => i = 1
        /\ SubSeq(text, i, i + Len(re.lit) - 1) = re.lit

\* Bhatho::new compiles the mappings only when the extractor is enabled
Bhatho_regexs(cfg) ==
    IF cfg.db_name_extractor_from_key.enabled
    THEN cfg.db_name_extractor_from_key.regex_mappings
    ELSE <<>>

RECURSIVE first_match(_, _, _)
first_match(regexs, text, i) ==
    IF i > Len(regexs) THEN [ok |-> FALSE, name |-> "not_found"]
    ELSE IF regex_is_match(regexs[i].extract_name_regex, text)
    THEN [ok |-> TRUE, name |-> regexs[i].new_db_name]
    ELSE first_match(regexs, text, i + 1)

\* Bhatho::extract_table_name_from_key -> Ok(name) or Err("not_found")
extract_table_name_from_key(cfg, kv) ==
    IF /\ cfg.db_name_extractor_from_key.enabled
       /\ \/ kv.db_name = EmptyBytes
          \/ cfg.db_name_extractor_from_key.override_nonempty
    THEN first_match(Bhatho_regexs(cfg), key_text(kv.key), 1)
    ELSE [ok |-> FALSE, name |-> "not_found"]

\* a get_shard that selects by the fingerprint alone
Bhatho_get_shard_by_hash(cfg, kv) == u64_mod(kv.hash, Len(cfg.db_configs))

\* Bhatho::get_shard: the index into dbs, from 0.  The scan of dbs runs when
\* the name after extraction is not empty, and compares each manager's name
\* with kv.db_name
Bhatho_get_shard(cfg, kv) ==
    LET dbs == cfg.db_configs
        ex == extract_table_name_from_key(cfg, kv)
        db_name == IF cfg.db_name_extractor_from_key.enabled /\ ex.ok
                   THEN ex.name ELSE kv.db_name
        found == {i \in DOMAIN dbs : dbs[i].name = kv.db_name}
    IN  IF db_name # EmptyBytes /\ found # {}
        THEN (CHOOSE i \in found : \A j \in found : i <= j) - 1
        ELSE u64_mod(kv.hash, Len(dbs))

\* a thread calls get_shard, as Bhatho::get, put and delete do first
GetShard(t, kv) ==
    /\ th[t].pc = "idle"
    /\ th' = [th EXCEPT ![t] =
                Returned("get_shard", kv, "Ok", Bhatho_get_shard(config, kv),
                         FALSE)]
    /\ UNCHANGED <<config, fan, locks, cacheVars, asyncVars>>

UserRule ==
    [extract_name_regex |-> [anchored |-> TRUE, lit |-> <<"u", "s", "e", "r", ":">>],
     new_db_name |-> "red"]

ItemRule ==
    [extract_name_regex |-> [anchored |-> TRUE, lit |-> <<"i", "t", "e", "m">>],
     new_db_name |-> "blue"]

ColonRule ==
    [extract_name_regex |-> [anchored |-> FALSE, lit |-> <<":">>],
     new_db_name |-> "blue"]

\* a rule whose new_db_name names no manager
GreenRule ==
    [extract_name_regex |-> [anchored |-> TRUE, lit |-> <<"u", "s", "e", "r", ":">>],
     new_db_name |-> "green"]

RuleLists ==
    {<<>>, <<UserRule>>, <<UserRule, ItemRule>>, <<UserRule, ColonRule>>,
     <<ColonRule, UserRule>>, <<GreenRule>>}

DbLists ==
    {<<[name |-> "red"], [name |-> "blue"]>>,
     <<[name |-> "blue"], [name |-> "red"]>>}

RouterConfigs ==
    {[db_configs |-> dbs, db_name_extractor_from_key |-> ex] :
        dbs \in DbLists,
        ex \in [enabled : BOOLEAN, override_nonempty : BOOLEAN,
                regex_mappings : RuleLists]}

Requests ==
    {KeyVal_new_with_db_key(n, k) :
        n \in {EmptyBytes, "red", "blue", "green"}, k \in RouterKeys}

InitRouter ==
    /\ config \in RouterConfigs
    /\ shards = <<>>
    /\ CacheIdle
    /\ store = [k \in Keys |-> None]
    /\ queue = <<>> /\ sent = <<>>
    /\ wk = <<>>
    /\ shutdown = FALSE
    /\ th = [t \in Callers |-> Idle]
    /\ fan = <<>>
    /\ enqueued = <<>> /\ acked = 0
    /\ attempted = {} /\ written = {}

NextRouter == \E t \in Callers, kv \in Requests : GetShard(t, kv)

SpecRouter == InitRouter /\ [][NextRouter]_vars

(***************************************************************************)
(* Bhatho::export_lru_keys and backup_db: one thread is spawned per DB     *)
(* manager, and each thread decides from the name whether to run the       *)
(* manager's export or backup.  The outcome of that per-DB operation is    *)
(* the environment's: Ok or Err.                                           *)
(***************************************************************************)
FanOps == {"export_lru_keys", "backup_db"}

FanNames == {EmptyBytes, "red", "blue", "green"}

\* the lists of DB managers, one of them with a name that two managers share
FanDbLists == DbLists \cup {<<[name |-> "red"], [name |-> "red"], [name |-> "blue"]>>}

FanConfigs ==
    {[db_configs |-> dbs,
      db_name_extractor_from_key |->
        [enabled |-> FALSE, override_nonempty |-> FALSE, regex_mappings |-> <<>>]] :
        dbs \in FanDbLists}

\* the closure's test that never takes the empty name for every manager
fan_selects_by_name(db, db_name_str) == db.name = db_name_str

\* the closure's test: !db_name_str.is_empty() and db.name == db_name_str, or
\* the else branch
fan_selects(db, db_name_str) ==
    IF db_name_str # EmptyBytes THEN db.name = db_name_str ELSE TRUE

Spawned(op, name) == [pc |-> "spawned", op |-> op, name |-> name, ran |-> FALSE,
                      res |-> "none"]

\* the for loop of export_lru_keys / backup_db: std::thread::spawn for every
\* index of dbs, each closure with its copy of the name
FanOut(t, op, name) ==
    /\ th[t].pc = "idle"
    /\ \A i \in DOMAIN fan : fan[i].pc = "done"
    /\ fan' = [i \in DOMAIN config.db_configs |-> Spawned(op, name)]
    /\ th' = [th EXCEPT ![t] = InCall("fan_return", op, th[t].kv, None)]
    /\ UNCHANGED <<config, locks, cacheVars, asyncVars>>

\* Ok(()) after the loop
FanReturn(t) ==
    /\ th[t].pc = "fan_return"
    /\ th' = [th EXCEPT ![t] = Returned(th[t].op, th[t].kv, "Ok", None, FALSE)]
    /\ UNCHANGED <<config, fan, locks, cacheVars, asyncVars>>

\* the spawned closure for manager i, whose export or backup returns Ok when
\* ok and Err when not
FanRun(i, ok) ==
    /\ i \in DOMAIN fan
    /\ fan[i].pc = "spawned"
    /\ fan' = [fan EXCEPT ![i] =
                IF fan_selects(config.db_configs[i], fan[i].name)
                THEN [@ EXCEPT !.pc = "done", !.ran = TRUE,
                               !.res = IF ok THEN "Ok" ELSE "Err"]
                ELSE [@ EXCEPT !.pc = "done"]]
    /\ UNCHANGED <<config, locks, th, cacheVars, asyncVars>>

InitFanout ==
    /\ config \in FanConfigs
    /\ shards = <<>>
    /\ CacheIdle
    /\ store = [k \in Keys |-> None]
    /\ queue = <<>> /\ sent = <<>>
    /\ wk = <<>>
    /\ shutdown = FALSE
    /\ th = [t \in Callers |-> Idle]
    /\ fan = <<>>
    /\ enqueued = <<>> /\ acked = 0
    /\ attempted = {} /\ written = {}

NextFanout ==
    \/ \E t \in Callers, op \in FanOps, n \in FanNames : FanOut(t, op, n)
    \/ \E t \in Callers : FanReturn(t)
    \/ \E i \in 1..3, ok \in BOOLEAN : FanRun(i, ok)

SpecFanout == InitFanout /\ [][NextFanout]_vars

(***************************************************************************)
(* One Lru shard called directly (tests::test_lrucache_put_and_get_large): *)
(* shards[1] is the Lru.  test_data holds, for every key, the value of its *)
(* most recent put, and None once the key has been deleted or has left the *)
(* shard by eviction.                                                      *)
(***************************************************************************)
\* test_data less the keys that left shard c on the way to c2
Remaining(c, c2) ==
    [k \in Keys |-> IF k \in LruKeys(c) \ LruKeys(c2) THEN None ELSE test_data[k]]

\* cache.put(key, val); last.val is the value the key held before, which
\* LruCache::put hands back and Lru::put drops
LruPut(key, val) ==
    LET c2 == Lru_put(shards[1], ShardCap(config.cache), key, val)
    IN  /\ shards' = <<c2>>
        /\ test_data' = [Remaining(shards[1], c2) EXCEPT ![key] = val]
        /\ used' = UsedAfter(config.cache, <<c2>>, 1, key, TRUE)
        /\ last' = [PutOp(shards, <<c2>>, 1, key) EXCEPT
                        !.val = Lru_get_no_promote(shards[1], key).val]
        /\ UNCHANGED <<config, fan, locks, dump, pending, th, asyncVars>>

\* cache.get(key)
LruGet(key) ==
    LET r == Lru_get(shards[1], key)
    IN  /\ shards' = <<r.cache>>
        /\ used' = UsedAfter(config.cache, <<r.cache>>, 1, key, r.val # None)
        /\ last' = GetOp(key, r.val)
        /\ UNCHANGED <<config, fan, locks, dump, test_data, pending, th, asyncVars>>

\* cache.delete(key)
LruDelete(key) ==
    LET c2 == Lru_delete(shards[1], key)
    IN  /\ shards' = <<c2>>
        /\ test_data' = [test_data EXCEPT ![key] = None]
        /\ used' = UsedAfter(config.cache, <<c2>>, 1, key, FALSE)
        /\ last' = [DeleteOp EXCEPT !.key = key]
        /\ UNCHANGED <<config, fan, locks, dump, pending, th, asyncVars>>

\* cache.export_keys(&mut file), onto a new file
LruExportKeys(io) ==
    LET r == Lru_export_keys(shards[1], <<>>, FailingWrite(io))
    IN  /\ last' = ExportOp([res |-> r.res, count |-> r.count, opened |-> TRUE,
                             file |-> r.file])
        /\ UNCHANGED <<config, fan, locks, dump, test_data, shards, pending, used, th,
                       asyncVars>>

InitLru ==
    /\ InitCache
    /\ config.cache.enabled
    /\ config.cache.num_shards = 1

NextLru ==
    \/ \E k \in Keys, v \in Vals : LruPut(k, v)
    \/ \E k \in Keys : LruGet(k)
    \/ \E k \in Keys : LruDelete(k)
    \/ \E io \in {"ok", "write_err", "crlf_err"} : LruExportKeys(io)

SpecLru == InitLru /\ [][NextLru]_vars

\* Lru::batch_put: one turn of its loop, self.cache.lock().put(key, val) of
\* the next record, the guard dropped at the end of the statement
batch_put_turn(data) ==
    LET kv == Head(data)
        c2 == Lru_put(shards[1], ShardCap(config.cache), kv.key, kv.val)
    IN  /\ shards' = <<c2>>
        /\ used' = UsedAfter(config.cache, <<c2>>, 1, kv.key, TRUE)
        /\ pending' = Tail(data)
        /\ UNCHANGED <<config, fan, locks, dump, test_data, th, asyncVars>>

\* cache.batch_put(data): the call and the first turn of its loop
LruBatchPut(data) ==
    /\ pending = <<>>
    /\ batch_put_turn(data)
    /\ last' = BatchOp

\* the next turn of the loop of a batch_put
LruBatchPutStep ==
    /\ pending # <<>>
    /\ batch_put_turn(pending)
    /\ last' = last

NextLruBatch ==
    \/ NextLru
    \/ \E data \in Batches : LruBatchPut(data)
    \/ LruBatchPutStep

SpecLruBatch == InitLru /\ [][NextLruBatch]_vars

\* cache.is_empty(); last.res is the bool returned
LruIsEmpty ==
    /\ last' = [NoOp EXCEPT !.op = "is_empty",
                            !.res = IF Lru_is_empty(shards[1]) THEN "true"
                                    ELSE "false"]
    /\ UNCHANGED <<config, fan, locks, dump, test_data, shards, pending, used,
                   th, asyncVars>>

NextLruEmpty == NextLru \/ LruIsEmpty

SpecLruEmpty == InitLru /\ [][NextLruEmpty]_vars

(***************************************************************************)
(* The dump file between exports.  ShardedCache::export_keys opens         *)
(* keys_dump_file with write(true).create(true): a file that exists is     *)
(* neither truncated nor appended to, and the writes start at its first    *)
(* byte.  Here dump.file is the bytes the file holds between two exports   *)
(* of one thread.                                                          *)
(***************************************************************************)
CR == "\\r"

LF == "\\n"

\* the bytes of a sequence of written buffers; the keys are one byte each
RECURSIVE FileBytes(_)
FileBytes(bufs) ==
    IF bufs = <<>> THEN <<>>
    ELSE (IF Head(bufs) = CRLF THEN <<CR, LF>> ELSE <<Head(bufs)>>)
         \o FileBytes(Tail(bufs))

\* what the file holds after bytes were written from its start: the bytes
\* behind them stay
file_write(old, bytes) ==
    bytes \o SubSeq(old, Len(bytes) + 1, Len(old))

\* ShardedCache::export_keys, the whole call, onto the file as it is
DumpExportKeys(io) ==
    /\ dump.pc = "idle"
    /\ LET r == ShardedCache_export_keys(config.cache, shards, io)
           f == IF r.opened THEN file_write(dump.file, FileBytes(r.file))
                ELSE dump.file
       IN  /\ dump' = [dump EXCEPT !.file = f]
           /\ last' = ExportOp([r EXCEPT !.file = f])
    /\ UNCHANGED <<config, fan, locks, test_data, shards, pending, used, th,
                   asyncVars>>

DumpConfigs ==
    {c \in [enabled : BOOLEAN, cache_capacity : 1..MaxCapacity,
            num_shards : 1..MaxShards,
            cache_update_on_db_read : {TRUE},
            cache_update_on_db_write : {TRUE},
            keys_dump_enabled : BOOLEAN] :
        /\ ShardedCache_new_ok(c)
        /\ c.enabled => c.keys_dump_enabled}

InitDump ==
    /\ config \in {[cache |-> c, db |-> [DefaultDb EXCEPT !.enabled = FALSE]] :
                       c \in DumpConfigs}
    /\ shards = ShardedCache_new(config.cache)
    /\ CacheIdle
    /\ StoreIdle

NextDump ==
    \/ \E k \in Keys : CachePut(k, "1")
    \/ \E k \in Keys : CacheDelete(k)
    \/ \E io \in ExportIos : DumpExportKeys(io)

SpecDump == InitDump /\ [][NextDump]_vars

(***************************************************************************)
(* ShardedCache::new over a range of capacities and shard counts.          *)
(***************************************************************************)
MaxTotalCapacity == 12

MaxNumShards == 10

NewConfigs ==
    {[cache |-> [DefaultCache EXCEPT !.enabled = e, !.cache_capacity = c,
                                     !.num_shards = n],
      db |-> [DefaultDb EXCEPT !.enabled = FALSE]] :
        e \in BOOLEAN, c \in 1..MaxTotalCapacity, n \in 1..MaxNumShards}

\* a thread calls ShardedCache::new; val is the capacity handed to Lru::new,
\* and a failed assert is a panic
NewCache(t) ==
    /\ th[t].pc = "idle" /\ th[t].op = "none"
    /\ IF ShardedCache_new_ok(config.cache)
       THEN /\ shards' = ShardedCache_new(config.cache)
            /\ th' = [th EXCEPT ![t] =
                        Returned("new", th[t].kv, "Ok", ShardCap(config.cache), FALSE)]
       ELSE /\ shards' = shards
            /\ th' = [th EXCEPT ![t] =
                        Returned("new", th[t].kv, "Panic", None, FALSE)]
    /\ used' = [i \in DOMAIN shards' |-> <<>>]
    /\ UNCHANGED <<config, fan, locks, dump, test_data, pending, last, asyncVars>>

InitCapacity ==
    /\ config \in NewConfigs
    /\ shards = <<>>
    /\ CacheIdle
    /\ StoreIdle

NextCapacity == \E t \in Callers : NewCache(t)

SpecCapacity == InitCapacity /\ [][NextCapacity]_vars

(***************************************************************************)
(* Bhatho over one DbManager (BhathoConfig::default has one db_config and  *)
(* no extractor): put and get pick the manager with get_shard and call its *)
(* put_key_val and get_key_val.  A caller puts a record and, once the put  *)
(* has returned Ok, gets the same record, as tests::init_db_test does.     *)
(***************************************************************************)
OneDb ==
    [db_configs |-> <<[name |-> "db"]>>,
     db_name_extractor_from_key |->
        [enabled |-> FALSE, override_nonempty |-> FALSE, regex_mappings |-> <<>>]]

\* Bhatho::put
Bhatho_put(t, kv) ==
    /\ Bhatho_get_shard(OneDb, kv) = 0
    /\ DbManager_put_key_val(t, kv)

\* Bhatho::get of the record whose put has just returned Ok
Bhatho_get_after_put(t) ==
    /\ th[t].op = "put_key_val" /\ th[t].res = "Ok"
    /\ Bhatho_get_shard(OneDb, th[t].kv) = 0
    /\ DbManager_get_key_val(t, th[t].kv)

InitBhatho ==
    /\ Init
    /\ config.db.enabled

NextBhatho ==
    \/ \E t \in Callers, kv \in MgrPutRecords : Bhatho_put(t, kv)
    \/ \E t \in Callers : Bhatho_get_after_put(t)
    \/ \E t \in Callers : DbManager_get_db(t)
    \/ \E t \in Callers : DbManager_get_update(t)
    \/ \E t \in Callers : DbManager_put_update(t)
    \/ \E w \in DOMAIN wk : WriterRecv(w)
    \/ \E w \in DOMAIN wk : WriterDrained(w)
    \/ \E w \in DOMAIN wk : WriterCheck(w)
    \/ \E w \in DOMAIN wk : WriterPut(w)
    \/ \E w \in DOMAIN wk : WriterBatch(w)
    \/ SetShutdown

SpecBhatho == InitBhatho /\ [][NextBhatho]_vars

\* the entry of key k in shard c
LruEntry(c, k) == c[LruIndex(c, k)]

(***************************************************************************)
(* C4: every Lru shard holds at most its configured shard capacity of      *)
(* entries, after any interleaving of ShardedCache operations.             *)
(***************************************************************************)
C4_ShardWithinCapacity ==
    \A i \in DOMAIN shards : Lru_len(shards[i]) <= ShardCap(config.cache)

(***************************************************************************)
(* C5: a put that inserts a new key into a shard already at capacity       *)
(* evicts exactly one entry, the least recently used one (a put and a get  *)
(* hit both count as a use), and leaves the other entries' values alone.   *)
(***************************************************************************)
C5_EvictsLeastRecentlyUsed ==
    [][\A i \in DOMAIN shards :
          (/\ Lru_len(shards[i]) = ShardCap(config.cache)
           /\ LruKeys(shards'[i]) \ LruKeys(shards[i]) # {})
          => /\ LruKeys(shards[i]) \ LruKeys(shards'[i]) = {Head(used[i])}
             /\ Lru_len(shards'[i]) = ShardCap(config.cache)
             /\ \A k \in LruKeys(shards[i]) \cap LruKeys(shards'[i]) :
                    LruEntry(shards'[i], k).val = LruEntry(shards[i], k).val]_vars

\* capacity 3: after put a, put b, put c, get a, the put of d has evicted b
\* and a is still there with its value
C5_Witness ==
    /\ config.cache.enabled /\ config.cache.num_shards = 1
    /\ ShardCap(config.cache) = 3
    /\ last.op = "put" /\ last.key = "d" /\ last.evicted = {"b"}
    /\ used[1] = <<"c", "a", "d">>
    /\ ShardedCache_get(config.cache, shards, "b").val = None
    /\ ShardedCache_get(config.cache, shards, "a").val = "1"

C4_Witness ==
    /\ last.op = "put" /\ last.evicted # {}
    /\ \E i \in DOMAIN shards : Lru_len(shards[i]) = ShardCap(config.cache)

(***************************************************************************)
(* Formulas over the DbManager.                                            *)
(***************************************************************************)
GetOps == {"get", "get_key_val"}

PutOps == {"put", "put_key_val"}

DeleteOps == {"delete", "delete_key_val"}

\* some shard of sh holds key / holds key with value val
CacheHolds(sh, key) == \E i \in DOMAIN sh : key \in LruKeys(sh[i])

CacheHoldsVal(sh, key, val) ==
    \E i \in DOMAIN sh : \E n \in 1..Len(sh[i]) :
        sh[i][n] = [key |-> key, val |-> val]

ReadThrough == config.cache.enabled /\ config.cache.cache_update_on_db_read

WriteThrough == config.cache.enabled /\ config.cache.cache_update_on_db_write

SyncStore == config.db.enabled /\ ~config.db.async_write

(***************************************************************************)
(* C1: once every writer thread has exited, every record whose send        *)
(* returned Ok before the shutdown flag was set has been written to the    *)
(* store (no write of the store having failed).                            *)
(***************************************************************************)
C1_AckedWrittenAtExit ==
    (DOMAIN wk # {} /\ Closed /\ written = attempted)
        => \A id \in 1..acked : id \in written

(***************************************************************************)
(* C2: with the cache enabled and cache_update_on_db_read set, a get that  *)
(* misses the cache and finds (k, v) in the store returns (v, false) (the  *)
(* read of the store succeeding), and the same get called next by the same *)
(* thread, nothing in between, returns (v, true).                          *)
(***************************************************************************)
C2_ReadThrough ==
    [][\A t \in Callers :
          LET c == th[t]
              c2 == th'[t]
              k == c.kv.key
          IN  ReadThrough =>
                /\ (c.pc = "get_db" /\ c2 # c /\ store[k] # None /\ c2.res # "Err")
                      => c2 = InCall("get_update", c.op, c.kv, store[k])
                /\ (c.pc = "get_update" /\ c2 # c)
                      => c2 = Returned(c.op, c.kv, "Found", c.val, FALSE)
                /\ (c.pc = "idle" /\ c.op \in GetOps /\ c.res = "Found"
                        /\ ~c.from_cache /\ c2 # c /\ c2.op = c.op /\ c2.kv = c.kv)
                      => c2 = Returned(c.op, c.kv, "Found", c.val, TRUE)]_vars

\* the second get has returned (v, true) where only a read-through can have
\* filled the cache
C2_Witness ==
    /\ ReadThrough /\ ~config.cache.cache_update_on_db_write
    /\ \E t \in Callers :
        /\ th[t].pc = "idle" /\ th[t].op = "get" /\ th[t].res = "Found"
        /\ th[t].from_cache /\ th[t].val = store[th[t].kv.key]

(***************************************************************************)
(* C3: after DbManager put (or put_key_val) has returned Ok with the cache *)
(* enabled and cache_update_on_db_write set, the cache holds k with v.     *)
(***************************************************************************)
C3_WriteThrough ==
    \A t \in Callers :
        (WriteThrough /\ th[t].pc = "idle" /\ th[t].op \in PutOps
            /\ th[t].res = "Ok")
        => CacheHoldsVal(shards, th[t].kv.key, th[t].kv.val)

C3_Witness ==
    /\ WriteThrough /\ config.db.enabled
    /\ \E t \in Callers :
        /\ th[t].pc = "idle" /\ th[t].op = "put" /\ th[t].res = "Ok"
        /\ CacheHoldsVal(shards, th[t].kv.key, th[t].kv.val)
        /\ store[th[t].kv.key] = th[t].kv.val

(***************************************************************************)
(* C6: a key is stored only in the shard its record's fingerprint selects: *)
(* no key is in two shards at once, and the key of a record that a         *)
(* DbManager get_key_val or put_key_val has just handled is in no shard    *)
(* but the one the record's fingerprint selects.                           *)
(***************************************************************************)
C6_KeyInFingerprintShard ==
    /\ \A i, j \in DOMAIN shards :
        i # j => LruKeys(shards[i]) \cap LruKeys(shards[j]) = {}
    /\ \A t \in Callers :
        (th[t].pc = "idle" /\ th[t].op \in {"get_key_val", "put_key_val"})
        => \A i \in DOMAIN shards :
              th[t].kv.key \in LruKeys(shards[i])
                  => i = get_shard_key_val(config.cache, th[t].kv)

(***************************************************************************)
(* C7: the router selects by the db_name after extraction: the new_db_name *)
(* of the first rule, in config order, whose regex matches the key, when   *)
(* extraction is enabled and the request's db_name is empty or             *)
(* override_nonempty is set, and the request's own db_name otherwise; the  *)
(* request goes to the DbManager of that name when there is one.           *)
(***************************************************************************)
C7_RoutesByExtractedName ==
    \A t \in Callers :
        th[t].op = "get_shard" =>
            LET kv == th[t].kv
                ex == config.db_name_extractor_from_key
                dbs == config.db_configs
                hits == {i \in DOMAIN ex.regex_mappings :
                            regex_is_match(ex.regex_mappings[i].extract_name_regex,
                                           key_text(kv.key))}
                applies == /\ ex.enabled
                           /\ kv.db_name = EmptyBytes \/ ex.override_nonempty
                           /\ hits # {}
                name == IF applies
                        THEN ex.regex_mappings[
                                CHOOSE i \in hits : \A j \in hits : i <= j].new_db_name
                        ELSE kv.db_name
            IN  \A i \in DOMAIN dbs : dbs[i].name = name => th[t].val = i - 1

(***************************************************************************)
(* C8: with a synchronous store, a DbManager put whose store put fails     *)
(* returns Err and changes neither the cache nor the store, a put that     *)
(* does not return Err has written the store, and the cache update of a    *)
(* put only runs with the record in the store.                             *)
(***************************************************************************)
C8_SyncPutErrorLeavesCache ==
    /\ [](\A t \in Callers :
            (SyncStore /\ th[t].pc = "put_update")
                => store[th[t].kv.key] = th[t].kv.val)
    /\ [][\A t \in Callers :
            (SyncStore /\ th[t].pc = "idle" /\ th'[t] # th[t]
                /\ th'[t].op \in PutOps)
            => \/ /\ th'[t].res = "Err"
                  /\ th'[t].pc = "idle"
                  /\ shards' = shards
                  /\ store' = store
               \/ /\ th'[t].res # "Err"
                  /\ store' = db_put(store, th'[t].kv.key, th'[t].kv.val)
                  /\ shards' = shards]_vars

C8_Witness ==
    /\ SyncStore /\ WriteThrough
    /\ \E t \in Callers :
        /\ th[t].pc = "idle" /\ th[t].op = "put" /\ th[t].res = "Err"
        /\ CacheHolds(shards, th[t].kv.key)
        /\ ~CacheHoldsVal(shards, th[t].kv.key, th[t].kv.val)

(***************************************************************************)
(* C9: after DbManager delete (or delete_key_val) of k has returned, Ok or *)
(* Err, no shard of the cache holds k.                                     *)
(***************************************************************************)
C9_DeletedKeyNotCached ==
    \A t \in Callers :
        (th[t].pc = "idle" /\ th[t].op \in DeleteOps)
            => ~CacheHolds(shards, th[t].kv.key)

(***************************************************************************)
(* C10: on the asynchronous path a put returns Err only when the channel   *)
(* is closed; the put never touches the store, and a writer's write of a   *)
(* record, failed or not, changes no caller's result.                      *)
(***************************************************************************)
C10_AsyncOnlyEnqueueErrors ==
    /\ [](\A t \in Callers : th[t].res = "Err" => Closed)
    /\ [][/\ \A t \in Callers : th'[t] # th[t] => store' = store
          /\ attempted' # attempted => th' = th]_vars

\* the put of a record returned Ok and a writer's write of it then failed
C10_Witness ==
    \E t \in Callers, id \in attempted \ written :
        /\ th[t].op = "db_put" /\ th[t].res = "Ok"
        /\ id = Len(enqueued) /\ enqueued[id] = th[t].kv

(***************************************************************************)
(* C11: the channel never holds more than async_write_queue_length         *)
(* records; while a writer thread is alive a put returns only from a state *)
(* where the channel had room, it returns Ok, and its record is the new    *)
(* last record of the channel: a put on a full channel waits.              *)
(***************************************************************************)
C11_QueueBoundedPutWaits ==
    /\ [](Len(queue) <= config.db.async_write_queue_length)
    /\ [][((th' # th \/ enqueued' # enqueued) /\ ~Closed)
            => /\ Len(queue) < config.db.async_write_queue_length
               /\ \E t \in Callers :
                    /\ th'[t].op = "db_put" /\ th'[t].res = "Ok"
                    /\ queue' = Append(queue, th'[t].kv)
                    /\ enqueued' = Append(enqueued, th'[t].kv)]_vars

\* a queue of one record is full again with the second record sent: the
\* second put went through after a writer took the first
C11_Witness ==
    /\ config.db.async_write_queue_length = 1
    /\ ~Closed
    /\ Len(enqueued) = 2
    /\ queue = <<enqueued[2]>>
    /\ \E t \in Callers : th[t].res = "Ok" /\ th[t].kv = enqueued[2]

\* the value of the last record sent for key k
LastEnqueued(k) ==
    LET ids == {i \in 1..Len(enqueued) : enqueued[i].key = k}
    IN  IF ids = {} THEN None
        ELSE enqueued[CHOOSE i \in ids : \A j \in ids : j <= i].val

(***************************************************************************)
(* C12: a writer thread holds the records it took in the order they were   *)
(* sent and writes them in that order; with a single writer thread the     *)
(* records written are always the first ones sent, and once that thread    *)
(* has exited, no write of the store having failed, the store holds for    *)
(* each key the value of the last record sent for it.                      *)
(***************************************************************************)
C12_SingleWriterLastWins ==
    /\ \A w \in DOMAIN wk : \A i, j \in 1..Len(wk[w].ids) :
            i < j => wk[w].ids[i] < wk[w].ids[j]
    /\ DOMAIN wk = {1} =>
        /\ attempted = 1..Cardinality(attempted)
        /\ (Closed /\ written = attempted) =>
                \A k \in Keys :
                    LastEnqueued(k) # None => store[k] = LastEnqueued(k)

(***************************************************************************)
(* C13: a request with a non-empty db_name, override_nonempty being false, *)
(* is not renamed by extraction and goes to the DbManager whose name is    *)
(* its db_name, whatever its key and fingerprint.                          *)
(***************************************************************************)
C13_NamedRequestKeepsName ==
    \A t \in Callers :
        (/\ th[t].op = "get_shard"
         /\ th[t].kv.db_name # EmptyBytes
         /\ ~config.db_name_extractor_from_key.override_nonempty)
        => /\ ~extract_table_name_from_key(config, th[t].kv).ok
           /\ \A i \in DOMAIN config.db_configs :
                config.db_configs[i].name = th[t].kv.db_name => th[t].val = i - 1

\* the claim's example: DBs [red, blue], user: keys mapped to red, a request
\* named blue with key user:42 (whose fingerprint is even) goes to blue
C13_Witness ==
    /\ config.db_configs = <<[name |-> "red"], [name |-> "blue"]>>
    /\ config.db_name_extractor_from_key =
        [enabled |-> TRUE, override_nonempty |-> FALSE,
         regex_mappings |-> <<UserRule>>]
    /\ \E t \in Callers :
        /\ th[t].op = "get_shard"
        /\ th[t].kv = KeyVal_new_with_db_key("blue", "user:42")
        /\ th[t].val = 1

\* the db_name of a request after extraction: the new_db_name of the first
\* rule that matches when extraction applies, the request's own otherwise
ExtractedName(cfg, kv) ==
    LET ex == cfg.db_name_extractor_from_key
        hits == {i \in DOMAIN ex.regex_mappings :
                    regex_is_match(ex.regex_mappings[i].extract_name_regex,
                                   key_text(kv.key))}
    IN  IF /\ ex.enabled
           /\ kv.db_name = EmptyBytes \/ ex.override_nonempty
           /\ hits # {}
        THEN ex.regex_mappings[CHOOSE i \in hits : \A j \in hits : i <= j].new_db_name
        ELSE kv.db_name

(***************************************************************************)
(* C14: a request whose db_name after extraction is empty, or is the name  *)
(* of no DbManager, goes to index fingerprint mod num_dbs, an index of the *)
(* DB list.                                                                *)
(***************************************************************************)
C14_UnnamedRequestByFingerprint ==
    \A t \in Callers :
        th[t].op = "get_shard" =>
            LET name == ExtractedName(config, th[t].kv)
                dbs == config.db_configs
            IN  (name = EmptyBytes \/ \A i \in DOMAIN dbs : dbs[i].name # name)
                => /\ th[t].val = u64_mod(th[t].kv.hash, Len(dbs))
                   /\ th[t].val \in 0..(Len(dbs) - 1)

(***************************************************************************)
(* C15: with the enabled flag false every ShardedCache get and get_key_val *)
(* returns absence, every put, put_key_val, batch_put and delete returns   *)
(* Ok, export_keys returns Ok(0) without opening the dump file, and no     *)
(* call changes the cache: it has no shard and batch_put leaves no item    *)
(* to put.                                                                 *)
(***************************************************************************)
C15_DisabledCacheDoesNothing ==
    ~config.cache.enabled =>
        /\ shards = <<>>
        /\ pending = <<>>
        /\ last.op = "get" => last.val = None
        /\ last.op \in {"put", "batch_put", "delete"} => last.res = "Ok"
        /\ last.op = "export_keys" =>
                /\ last.res = "Ok" /\ last.count = 0
                /\ ~last.opened /\ last.file = <<>>

\* export_keys has returned from a disabled cache whose configuration
\* enables the dump
C15_Witness ==
    /\ ~config.cache.enabled
    /\ config.cache.keys_dump_enabled
    /\ last.op = "export_keys"

(***************************************************************************)
(* C16: with the cache disabled and the store enabled, a DbManager put or  *)
(* put_key_val that does not fail has written its key and value to the     *)
(* store (synchronous store) or appended them to the writers' queue        *)
(* (async_write), and a get or get_key_val that finds the key returns the  *)
(* value it read from the store, with from_cache = false.                  *)
(***************************************************************************)
C16_DisabledCacheStoreServes ==
    [][(~config.cache.enabled /\ config.db.enabled) =>
        \A t \in Callers :
            LET k == th'[t].kv.key
            IN  /\ (th[t].pc = "idle" /\ th'[t] # th[t] /\ th'[t].op \in PutOps
                        /\ th'[t].res # "Err")
                    => IF config.db.async_write
                       THEN /\ Len(queue') = Len(queue) + 1
                            /\ queue'[Len(queue')].key = k
                            /\ queue'[Len(queue')].val = th'[t].kv.val
                            /\ SubSeq(queue', 1, Len(queue)) = queue
                       ELSE store' = [store EXCEPT ![k] = th'[t].kv.val]
                /\ (th[t].pc = "get_db" /\ th'[t].val # None)
                    => th'[t].val = store[k]
                /\ (th[t].pc = "get_update" /\ th'[t] # th[t])
                    => th'[t] = Returned(th[t].op, th[t].kv, "Found", th[t].val, FALSE)
                /\ (th'[t].op \in GetOps /\ th'[t].res = "Found")
                    => ~th'[t].from_cache]_vars

\* over a disabled cache and the writers' queue, a get has returned the value
\* that a put sent and a writer wrote
C16_Witness ==
    /\ ~config.cache.enabled
    /\ config.db.enabled /\ config.db.async_write
    /\ enqueued # <<>>
    /\ \E t \in Callers :
        /\ th[t].pc = "idle" /\ th[t].op = "get" /\ th[t].res = "Found"
        /\ ~th[t].from_cache
        /\ th[t].val = enqueued[1].val /\ th[t].kv.key = enqueued[1].key

(***************************************************************************)
(* C17: the Bhatho get that follows a Bhatho put of the same record, by    *)
(* the same caller, once the put has returned Ok, returns Some with the    *)
(* value just put, unless the read of the store itself fails, in every     *)
(* configuration with the store enabled.                                   *)
(***************************************************************************)
C17_GetAfterPutReturnsIt ==
    \A t \in Callers :
        (th[t].pc = "idle" /\ th[t].op = "get_key_val" /\ th[t].res # "Err")
        => /\ th[t].res = "Found"
           /\ th[t].val = th[t].kv.val

(***************************************************************************)
(* C20: ShardedCache::new of an enabled cache returns, and hands every     *)
(* shard the capacity ceil(cache_capacity / num_shards), for every         *)
(* cache_capacity >= 1 and num_shards >= 1.                                *)
(***************************************************************************)
CeilDiv(a, b) == (a + b - 1) \div b

C20_ShardCapacityIsCeiling ==
    \A t \in Callers :
        (th[t].op = "new" /\ config.cache.enabled)
        => /\ th[t].res = "Ok"
           /\ th[t].val = CeilDiv(config.cache.cache_capacity,
                                  config.cache.num_shards)

(***************************************************************************)
(* C18: in a new enabled ShardedCache into which at most cache_capacity    *)
(* distinct keys have been put, every get of one of those keys returns     *)
(* the value last put for it: no key is missing.                           *)
(***************************************************************************)
C18_FilledCacheHoldsEveryKey ==
    last.op = "get" => last.val = test_data[last.key]

(***************************************************************************)
(* C19: for an Lru shard, get(k) returns the value of the most recent      *)
(* put(k, v) unless k has been deleted or evicted since, and a put evicts  *)
(* only when it inserts a new key into a shard that already holds          *)
(* capacity keys: after puts of at most capacity distinct keys every one   *)
(* of them is in the shard with its value.                                 *)
(***************************************************************************)
C19_LruGetReturnsLastPut ==
    /\ [](/\ last.op = "get" => last.val = test_data[last.key]
          /\ \A k \in Keys :
                test_data[k] # None
                => /\ k \in LruKeys(shards[1])
                   /\ LruEntry(shards[1], k).val = test_data[k])
    /\ [][(last'.op = "put" /\ last'.evicted # {})
            => /\ Len(shards[1]) = config.cache.cache_capacity
               /\ last'.key \notin LruKeys(shards[1])]_vars

\* a shard of capacity 3 holds three keys, one of them put twice, and a get
\* has just returned the second value
C19_Witness ==
    /\ config.cache.cache_capacity = 3
    /\ Len(shards[1]) = 3
    /\ last.op = "get" /\ last.val = "2"
    /\ test_data[last.key] = "2"

(***************************************************************************)
(* C21: every request record in the engine, a caller's, a queued one or    *)
(* one a writer holds, carries the fingerprint get_hash_code of its own    *)
(* key, whichever constructor built it, and keeps it through every         *)
(* operation.                                                              *)
(***************************************************************************)
RecordsInEngine ==
    {th[t].kv : t \in Callers}
        \cup {queue[i] : i \in DOMAIN queue}
        \cup UNION {{wk[w].data[i] : i \in DOMAIN wk[w].data} : w \in DOMAIN wk}

C21_FingerprintIsHashOfKey ==
    \A kv \in RecordsInEngine : kv.hash = get_hash_code(kv.key)

(***************************************************************************)
(* C22: an Lru export_keys that returns Ok has written every key of the    *)
(* shard once, each followed by CRLF, least recently used first, and       *)
(* returns the number of keys; no export changes the shard's entries or    *)
(* their order of use.                                                     *)
(***************************************************************************)
\* the keys of shard c, oldest first, each followed by CRLF
OldestFirstLines(c) ==
    [n \in 1..(2 * Len(c)) |-> IF n % 2 = 1 THEN c[(n + 1) \div 2].key ELSE CRLF]

C22_LruExportOldestFirst ==
    /\ []((last.op = "export_keys" /\ last.res = "Ok")
            => /\ last.file = OldestFirstLines(shards[1])
               /\ last.count = Len(shards[1]))
    /\ [][last'.op = "export_keys" => shards' = shards]_vars

(***************************************************************************)
(* C23: ShardedCache export_keys appends the shards' exports to one file   *)
(* in shard-index order and returns the sum of the per-shard counts; an    *)
(* error from a shard ends the export, which returns the error and no      *)
(* count.                                                                  *)
(***************************************************************************)
\* the keys of shard c as its export writes them, each followed by CRLF
ShardLines(c) ==
    [n \in 1..(2 * Len(c)) |->
        IF n % 2 = 1 THEN c[Len(c) + 1 - ((n + 1) \div 2)].key ELSE CRLF]

RECURSIVE AllLines(_, _)
AllLines(sh, i) ==
    IF i > Len(sh) THEN <<>> ELSE ShardLines(sh[i]) \o AllLines(sh, i + 1)

RECURSIVE TotalEntries(_, _)
TotalEntries(sh, i) ==
    IF i > Len(sh) THEN 0 ELSE Len(sh[i]) + TotalEntries(sh, i + 1)

IsPrefix(p, q) == Len(p) <= Len(q) /\ SubSeq(q, 1, Len(p)) = p

\* a step of an export that has opened its file: it returns, or goes on to
\* the next shard
ExportStepped ==
    /\ config.cache.enabled /\ config.cache.keys_dump_enabled
    /\ \/ dump' # dump
       \/ last' # last /\ last'.op = "export_keys" /\ last'.opened

\* the original statement: the count returned is the total number of keys
\* in the cache, and the file holds the shards' keys in shard-index order
C23_ExportCountsCacheKeys ==
    [][(ExportStepped /\ dump'.pc = "idle" /\ last'.res = "Ok")
        => /\ last'.count = TotalEntries(shards', 1)
           /\ last'.file = AllLines(shards', 1)]_vars

\* the amended statement: each shard's export is appended and counted while
\* that shard's lock is held, and the sum of these counts is the number of
\* entries in the cache when no other call changes it during the export
C23_ExportSumsShardCounts ==
    /\ []((config.cache.enabled /\ config.cache.keys_dump_enabled)
            => LET r == ShardedCache_export_keys(config.cache, shards, "ok")
               IN  /\ r.res = "Ok" /\ r.opened
                   /\ r.count = TotalEntries(shards, 1)
                   /\ r.file = AllLines(shards, 1))
    /\ [](dump.pc = "run"
            => /\ dump.shard \in 2..Len(shards)
               /\ 2 * dump.total = Len(dump.file))
    /\ [][ExportStepped
            => LET i == IF dump.pc = "run" THEN dump.shard ELSE 1
                   lines == dump.file \o ShardLines(shards[i])
                   count == dump.total + Len(shards[i])
               IN  \/ /\ dump'.pc = "run" /\ last' = last
                      /\ dump'.shard = i + 1
                      /\ dump'.file = lines /\ dump'.total = count
                   \/ /\ dump' = NoDump /\ last'.res = "Ok"
                      /\ i = Len(shards)
                      /\ last'.file = lines /\ last'.count = count
                   \/ /\ dump' = NoDump /\ last'.res = "Err"
                      /\ last'.count = 0
                      /\ IsPrefix(last'.file, lines) /\ last'.file # lines
                      /\ Len(last'.file) >= Len(dump.file)]_vars

\* an export over two shards with one key each has returned 2 and a file of
\* two lines
C23_Witness ==
    /\ Len(shards) = 2
    /\ Len(shards[1]) = 1 /\ Len(shards[2]) = 1
    /\ last.op = "export_keys" /\ last.res = "Ok" /\ last.count = 2
    /\ last.file = AllLines(shards, 1)

(***************************************************************************)
(* C24: export_lru_keys(name) and backup_db(name) spawn one thread per DB  *)
(* manager and return Ok, whatever the managers' exports or backups        *)
(* return; the export or backup runs on exactly the managers whose name    *)
(* is name, or on every manager when name is empty.                        *)
(***************************************************************************)
C24_FanOutReturnsOk ==
    /\ [](\A t \in Callers :
            (th[t].pc = "idle" /\ th[t].op \in FanOps)
            => /\ th[t].res = "Ok"
               /\ DOMAIN fan = DOMAIN config.db_configs)
    /\ [](\A i \in DOMAIN fan :
            fan[i].pc = "done"
            => fan[i].ran = (\/ fan[i].name = EmptyBytes
                             \/ config.db_configs[i].name = fan[i].name))
    /\ [][\A t \in Callers :
            (th[t].pc = "idle" /\ th'[t].pc = "fan_return")
            => \A i \in DOMAIN config.db_configs :
                    /\ fan'[i].op = th'[t].op
                    /\ fan'[i].pc = "spawned"]_vars

\* export of "red" over the managers red, red, blue has returned Ok: both
\* managers red ran it, one of them with an error, and blue did not
C24_Witness ==
    /\ Len(config.db_configs) = 3
    /\ \E t \in Callers :
        th[t].pc = "idle" /\ th[t].op = "export_lru_keys" /\ th[t].res = "Ok"
    /\ \A i \in DOMAIN config.db_configs : fan[i].pc = "done" /\ fan[i].name = "red"
    /\ fan[1].ran /\ fan[1].res = "Err"
    /\ fan[2].ran /\ fan[2].res = "Ok"
    /\ ~fan[3].ran

(***************************************************************************)
(* C25: a writer thread exits only when its latest drain of the channel    *)
(* returned no record and it then read the shutdown flag as set: it never  *)
(* exits holding dequeued records it has not written, and never while the  *)
(* flag is unset.                                                          *)
(***************************************************************************)
C25_WriterExitsIdleAndStopped ==
    /\ [](\A w \in DOMAIN wk :
            wk[w].pc \in {"check", "exited"} => wk[w].data = <<>>)
    /\ [](\A w \in DOMAIN wk : wk[w].pc = "exited" => shutdown)
    /\ [][\A w \in DOMAIN wk :
            /\ (wk[w].pc # "check" /\ wk'[w].pc = "check")
               => (wk[w].pc = "drain" /\ queue = <<>> /\ wk[w].data = <<>>)
            /\ (wk[w].pc # "exited" /\ wk'[w].pc = "exited")
               => (wk[w].pc = "check" /\ shutdown)]_vars

\* a writer that wrote a batch has exited, every sent record attempted
C25_Witness ==
    /\ \E w \in DOMAIN wk :
        wk[w].pc = "exited" /\ wk[w].wrote \in {"write", "write_without_wal"}
    /\ Len(enqueued) = MaxEnqueue
    /\ Cardinality(attempted) = MaxEnqueue

(***************************************************************************)
(* C26: for a single caller, DbManager put(k, v) followed by delete(k),    *)
(* both returning Ok and with no later put of k, leaves k absent from the  *)
(* store once all queued writes have been applied, also when async_write   *)
(* is set.  The caller's latest call is the delete, so no put is later;    *)
(* the channel is empty and no writer holds a record, so every queued      *)
(* write has been applied.  The store holds k only after a put of k, so    *)
(* the states without the claim's put satisfy the formula by themselves.   *)
(***************************************************************************)
QueuedWritesApplied ==
    /\ queue = <<>>
    /\ \A w \in DOMAIN wk : wk[w].data = <<>>

C26_DeleteAfterPutLeavesAbsent ==
    \A t \in Callers :
        (/\ config.db.enabled
         /\ th[t].pc = "idle"
         /\ th[t].op \in {"delete", "delete_key_val"}
         /\ th[t].res = "Ok"
         /\ QueuedWritesApplied)
        => store[th[t].kv.key] = None

(***************************************************************************)
(* C27: once DbManager delete(k) has returned Ok and every call that ran   *)
(* concurrently with it has returned, no put of k having started since the *)
(* delete started, get(k) returns absence, also when a read-through get(k) *)
(* ran concurrently with the delete.  Thread t1 is the only one that puts, *)
(* so no put has started since its delete while the delete is its latest   *)
(* call.                                                                   *)
(***************************************************************************)
\* what DbManager::get(k) would return now is Ok(None)
GetReturnsAbsent(k) ==
    /\ ShardedCache_get(config.cache, shards, k).val = None
    /\ RocksDb_get(config.db, store, k, TRUE).val = None

C27_DeletedKeyStaysAbsent ==
    (/\ \A t \in DOMAIN th : th[t].pc = "idle"
     /\ th["t1"].op = "delete"
     /\ th["t1"].res = "Ok")
    => GetReturnsAbsent(th["t1"].kv.key)

(***************************************************************************)
(* C28: with a synchronous store, the cache enabled and                    *)
(* cache_update_on_db_write set, once the puts of different threads to the *)
(* same key have all returned, the entry not evicted, the value cached for *)
(* the key is the value in the store.                                      *)
(***************************************************************************)
C28_PutsLeaveCacheEqualStore ==
    \A k \in DbKeys :
        (/\ SyncStore /\ WriteThrough
         /\ \A t \in DOMAIN th :
                /\ th[t].pc = "idle" /\ th[t].op = "put" /\ th[t].res = "Ok"
                /\ th[t].kv.key = k
         /\ CacheHolds(shards, k))
        => CacheHoldsVal(shards, k, store[k])

(***************************************************************************)
(* C29: once the shutdown flag is set and the callers have stopped         *)
(* sending, every writer thread eventually exits, under fair scheduling    *)
(* and with the writes of the store returning.  The callers of the model   *)
(* stop after MaxEnqueue sends, whenever the flag is set.                  *)
(***************************************************************************)
C29_WritersExitAfterShutdown == shutdown ~> Closed

\* two writer threads have exited after the flag was set, one having written
\* a record by db.put and one having written nothing
C29_Witness ==
    /\ shutdown /\ Closed
    /\ DOMAIN wk = 1..2
    /\ \E w \in DOMAIN wk : wk[w].wrote = "put"
    /\ \E w \in DOMAIN wk : wk[w].wrote = "none"
    /\ written # {}

(***************************************************************************)
(* C30: in each iteration of a writer thread that drained a non-empty list *)
(* D: with fewer than min_count_for_batch_write records in D, each record  *)
(* of D is written by its own put, in the order of dequeue; otherwise all  *)
(* of D is written as one batch, by write_without_wal exactly when         *)
(* disable_wal is set and by write when not.                               *)
(***************************************************************************)
IdsOf(w) == {wk[w].ids[i] : i \in 1..Len(wk[w].ids)}

C30_PutsBelowThresholdElseBatch ==
    [][\A w \in DOMAIN wk :
        /\ (wk[w].pc = "drain" /\ wk'[w].pc \in {"put", "batch"})
           => /\ wk'[w].data = wk[w].data /\ wk[w].data # <<>>
              /\ (wk'[w].pc = "put")
                 <=> (Len(wk[w].data) < config.db.min_count_for_batch_write)
        /\ (wk[w].pc = "put" /\ wk'[w] # wk[w])
           => /\ attempted' = attempted \cup {Head(wk[w].ids)}
              /\ \A i \in 2..Len(wk[w].ids) : wk[w].ids[1] < wk[w].ids[i]
              /\ store' \in {store, db_put(store, Head(wk[w].data).key,
                                            Head(wk[w].data).val)}
              /\ wk'[w].wrote = "put"
              /\ wk'[w].data = Tail(wk[w].data)
              /\ wk'[w].pc = IF wk'[w].data = <<>> THEN "drain" ELSE "put"
        /\ (wk[w].pc = "batch" /\ wk'[w] # wk[w])
           => /\ attempted' = attempted \cup IdsOf(w)
              /\ store' \in {store, db_write(store, wk[w].data)}
              /\ (wk'[w].wrote = "write_without_wal") <=> config.db.disable_wal
              /\ (wk'[w].wrote = "write") <=> ~config.db.disable_wal
              /\ wk'[w].data = <<>> /\ wk'[w].pc = "drain"]_vars

\* a writer thread has written two records as one batch without the log, the
\* threshold being two
C30_Witness ==
    /\ config.db.disable_wal
    /\ config.db.min_count_for_batch_write = 2
    /\ \E w \in DOMAIN wk :
        /\ wk[w].wrote = "write_without_wal"
        /\ wk[w].pc = "drain"
    /\ Cardinality(written) = 2

(***************************************************************************)
(* C31: a db.put or a batch write that fails in a writer thread does not   *)
(* stop the thread: the step that fails leaves the thread in its loop with *)
(* the rest of the drained records, and every record a thread has taken    *)
(* from the channel is attempted, whatever failed before it.               *)
(***************************************************************************)
Failed == attempted \ written

C31_FailedWriteDoesNotStopWriter ==
    /\ [][\A w \in DOMAIN wk :
            (wk'[w] # wk[w] /\ wk[w].pc \in {"put", "batch"} /\ Failed' # Failed)
            => /\ wk'[w].pc \in {"put", "drain"}
               /\ wk'[w].data =
                    IF wk[w].pc = "put" THEN Tail(wk[w].data) ELSE <<>>]_vars
    /\ \A id \in 1..MaxEnqueue :
            (\E w \in DOMAIN wk : id \in IdsOf(w)) ~> (id \in attempted)

\* the write of the first record failed and the second record, drained with
\* it or later, was written
C31_Witness ==
    /\ 1 \in Failed
    /\ 2 \in written
    /\ DOMAIN wk = {1}

(***************************************************************************)
(* C32: with several writer threads, every record sent is taken from the   *)
(* channel by exactly one thread and written to the store at most once: a  *)
(* record is in the channel, or held by one thread, or attempted, never    *)
(* two of these, and a thread never writes a record that was attempted     *)
(* before.                                                                 *)
(***************************************************************************)
InChannel == {sent[i] : i \in 1..Len(sent)}

C32_EachRecordOneWriterOnce ==
    /\ [](/\ InChannel \cup attempted \cup UNION {IdsOf(w) : w \in DOMAIN wk}
                = 1..Len(enqueued)
           /\ Len(sent) = Cardinality(InChannel)
           /\ InChannel \cap attempted = {}
           /\ \A w \in DOMAIN wk :
                /\ Len(wk[w].ids) = Cardinality(IdsOf(w))
                /\ IdsOf(w) \cap (InChannel \cup attempted) = {}
                /\ \A v \in DOMAIN wk : v # w => IdsOf(v) \cap IdsOf(w) = {})
    /\ [][\A w \in DOMAIN wk :
            /\ (wk[w].pc = "put" /\ wk'[w] # wk[w])
               => (attempted' \ attempted = {Head(wk[w].ids)})
            /\ (wk[w].pc = "batch" /\ wk'[w] # wk[w])
               => (attempted' \ attempted = IdsOf(w))]_vars

\* two writer threads have each taken and written one of the two records
C32_Witness ==
    /\ DOMAIN wk = 1..2
    /\ \A w \in DOMAIN wk : wk[w].wrote # "none" /\ wk[w].data = <<>>
    /\ written = {1, 2}
    /\ queue = <<>>

(***************************************************************************)
(* C33: after every writer thread has exited, which closes the channel, a  *)
(* put on the asynchronous path returns the error of the send instead of   *)
(* waiting, also on a full channel, and DbManager put then leaves the      *)
(* cache as it was.                                                        *)
(***************************************************************************)
AsyncStore == config.db.enabled /\ config.db.async_write

C33_ClosedQueuePutErrs ==
    /\ []((AsyncStore /\ Closed) => send_ready(config.db, queue, Closed))
    /\ [][\A t \in Callers :
            (/\ AsyncStore /\ Closed
             /\ th[t].pc = "idle" /\ th'[t] # th[t] /\ th'[t].op \in PutOps)
            => /\ th'[t].pc = "idle" /\ th'[t].res = "Err"
               /\ shards' = shards
               /\ queue' = queue /\ store' = store]_vars

\* the writer thread has exited leaving the channel full; the put of b has
\* returned Err, and the cache holds a, put before, and not b
C33_Witness ==
    /\ AsyncStore /\ WriteThrough
    /\ DOMAIN wk # {} /\ Closed
    /\ Len(queue) = config.db.async_write_queue_length
    /\ \E t \in Callers :
        /\ th[t].pc = "idle" /\ th[t].op = "put" /\ th[t].res = "Err"
        /\ th[t].kv.key = "b"
    /\ CacheHolds(shards, "a") /\ ~CacheHolds(shards, "b")

(***************************************************************************)
(* C34: no thread holds the mutex of an Lru shard while a store operation  *)
(* runs on its behalf: in DbManager get, put and delete the mutex is       *)
(* released before the store is called and taken again only after the      *)
(* store call has returned.                                                *)
(***************************************************************************)
Holds(t) == {p \in locks : p[1] = t}

C34_NoShardLockAcrossStoreCall ==
    /\ [](\A t \in DOMAIN th : th[t].pc = "store" => Holds(t) = {})
    /\ [](\A t \in DOMAIN th : Holds(t) # {} <=> th[t].pc = "locked")
    /\ [][\A t \in DOMAIN th :
            (th[t].pc = "store" /\ th'[t] # th[t])
            => Holds(t)' = {} /\ shards' = shards]_vars

\* thread t1 missed the cache and is in the store's get while thread t2
\* holds the mutex of the same shard
C34_Witness ==
    /\ th["t1"].pc = "store" /\ th["t1"].op = "get"
    /\ th["t2"].pc = "locked"
    /\ th["t2"].kv.key = th["t1"].kv.key
    /\ locks = {<<"t2", get_shard(config.cache, th["t1"].kv.key)>>}

(***************************************************************************)
(* C35: every operation of an Lru shard, batch_put among them, holds the   *)
(* shard's mutex for its whole duration, so no other operation on the      *)
(* shard interleaves with it: while a batch_put has records left to put,   *)
(* the next operation on the shard is the put of its next record.          *)
(***************************************************************************)
C35_LruOperationsAtomic ==
    [][pending # <<>> => pending' = Tail(pending)]_vars

(***************************************************************************)
(* C36: a DbManager get (or get_key_val) changes the set of cache entries  *)
(* only when it missed the cache, the store returned a value and           *)
(* cache_update_on_db_read is set; on a cache hit, on absence in the       *)
(* store, on an error of the store and with cache_update_on_db_read unset  *)
(* the set of entries of every shard is what it was.                       *)
(***************************************************************************)
EntrySets(sh) == [i \in DOMAIN sh |-> {sh[i][n] : n \in 1..Len(sh[i])}]

C36_GetChangesCacheOnlyOnReadThrough ==
    /\ [](\A t \in Callers :
            th[t].pc = "get_update"
            => /\ config.cache.cache_update_on_db_read
               /\ th[t].val # None
               /\ th[t].op \in GetOps)
    /\ [][\A t \in Callers :
            (th'[t] # th[t] /\ th'[t].op \in GetOps)
            => /\ th[t].pc # "get_update" => EntrySets(shards') = EntrySets(shards)
               /\ (th'[t].pc = "idle" /\ th[t].pc # "get_update")
                  => \/ th'[t].res = "Found" /\ th'[t].from_cache
                     \/ th'[t].res \in {"Absent", "Err"}
                     \/ /\ th'[t].res = "Found"
                        /\ ~config.cache.cache_update_on_db_read]_vars

\* a get_key_val of b that missed the cache has put b next to a, which a
\* put had cached before
C36_Witness ==
    /\ ReadThrough
    /\ \E t \in Callers :
        /\ th[t].pc = "idle" /\ th[t].op = "get_key_val" /\ th[t].res = "Found"
        /\ ~th[t].from_cache /\ th[t].kv.key = "b"
        /\ CacheHoldsVal(shards, "b", th[t].val)
    /\ CacheHolds(shards, "a")

(***************************************************************************)
(* C37: Lru get of a key the shard does not hold and Lru delete of a key   *)
(* the shard does not hold leave the shard's entries and their order of    *)
(* use as they were, and delete always returns Ok.                         *)
(***************************************************************************)
C37_AbsentKeyLeavesShard ==
    [][/\ (last'.op = "get" /\ last'.key \notin LruKeys(shards[1]))
          => /\ last'.val = None
             /\ shards' = shards /\ used' = used
       /\ last'.op = "delete"
          => /\ last'.res = "Ok"
             /\ last'.key \notin LruKeys(shards[1])
                => (shards' = shards /\ used' = used)]_vars

\* a delete has returned from a shard that is full, with two entries or
\* more, and does not hold the key: the key was absent and nothing left
C37_Witness ==
    /\ last.op = "delete" /\ last.res = "Ok"
    /\ last.key \notin LruKeys(shards[1])
    /\ Len(shards[1]) = ShardCap(config.cache)
    /\ Len(shards[1]) >= 2

(***************************************************************************)
(* C38: Lru put of a key the shard already holds replaces its value,       *)
(* evicts nothing even when the shard is at capacity, leaves the size as   *)
(* it was and makes that key the most recently used.                       *)
(***************************************************************************)
C38_OverwriteKeepsOthers ==
    [][(last'.op = "put" /\ last'.key \in LruKeys(shards[1]))
       => LET c  == shards[1]
              c2 == shards'[1]
          IN  /\ last'.res = "Ok"
              /\ last'.evicted = {}
              /\ Lru_len(c2) = Lru_len(c)
              /\ LruKeys(c2) = LruKeys(c)
              /\ c2[Len(c2)] = [key |-> last'.key, val |-> test_data'[last'.key]]
              /\ LruRemove(c2, last'.key) = LruRemove(c, last'.key)]_vars

\* a put has returned that found its key, with another value, in a shard
\* that is full with two entries or more
C38_Witness ==
    /\ last.op = "put" /\ last.val # None
    /\ Len(shards[1]) = ShardCap(config.cache)
    /\ Len(shards[1]) >= 2
    /\ shards[1][Len(shards[1])].key = last.key
    /\ shards[1][Len(shards[1])].val # last.val

(***************************************************************************)
(* C39: after ShardedCache export_keys has returned Ok(n), the dump file   *)
(* is n keys, each followed by CRLF, the keys in the cache and no others,  *)
(* also when the file held an earlier, larger export.  The source leaves   *)
(* what the earlier export wrote behind the new bytes.                     *)
(***************************************************************************)
CachedKeys == UNION {LruKeys(shards[i]) : i \in DOMAIN shards}

C39_DumpFileIsTheCachedKeys ==
    (last.op = "export_keys" /\ last.res = "Ok" /\ last.opened)
    => LET f == dump.file
           n == last.count
       IN  /\ Len(f) = 3 * n
           /\ \A j \in 1..n : /\ f[3 * j - 2] \in Keys
                               /\ f[3 * j - 1] = CR
                               /\ f[3 * j] = LF
           /\ {f[3 * j - 2] : j \in 1..n} = CachedKeys
           /\ n = Cardinality(CachedKeys)

(***************************************************************************)
(* C40: Lru is_empty returns true exactly when the shard holds no entries, *)
(* that is when len() = 0.  The source returns len() > 0.                  *)
(***************************************************************************)
C40_IsEmptyIffNoEntries ==
    last.op = "is_empty" => (last.res = "true" <=> Lru_len(shards[1]) = 0)
====
